---- MODULE Spec2Model ----
(***************************************************************************)
(* A model of the reconciliation / alerting core of finance-tracker:       *)
(*   - utils/alertsService.js  (the alert store and its deduplication)     *)
(*   - hooks/useTransactions.js (both copies kept in the file)             *)
(*   - pages/transactions/MainDashboard.jsx (the M-Pesa sync scheduler)    *)
(*   - components/BudgetAlerts.jsx (the budget alert producer)             *)
(* JavaScript values that are not strings are written as reserved strings  *)
(* starting with '#'.  Emoji are written by their code points.             *)
(***************************************************************************)
EXTENDS Integers, Sequences, FiniteSets, TLC

VARIABLES
  \* ---- the "alerts" table and the createAlertIfNotExists calls in flight
  alerts,        \* the rows of the table, in insertion order
  nextAlertId,   \* the id / created_at the next inserted row gets
  calls,         \* calls[c]: one createAlertIfNotExists activation
  succ           \* history: the call that has just created an alert, and
                 \* the call (if any) started right after it with its draft

VARIABLES
  \* ---- one mounted useTransactions hook and the stores behind it
  copy,          \* which of the two copies of the hook in the file runs
  transactions,  \* useState: the in-memory transaction list
  loading,       \* useState
  error,         \* useState
  mountedRef,    \* useRef: mountedRef.current
  toast,         \* the notification shown last
  refreshes,     \* refreshes[r]: one fetchTransactions activation
  writes,        \* writes[w]: one add/update/deleteTransaction activation
  ledger,        \* the rows of the "transactions" table of the user
  nextTxId,      \* the number the next inserted ledger row gets
  feed,          \* what GET /api/mpesa/transactions returns at the moment
  detects,       \* detects[d]: one detectAlerts activation
  localStorage   \* the keys set in window.localStorage

VARIABLES
  \* ---- the timers and subscriptions of the hook and of the dashboard
  subscribed,        \* the realtime channel of the hook is subscribed
  hookInterval,      \* the 5-minute interval of the hook is armed
  debounceLeft,      \* ticks until window._fetchDebounce fires; -1: not armed
  initSync,          \* initializeSync of the dashboard: "awaiting" or "done"
  intervalId,        \* the variable intervalId of the dashboard's sync effect
  dashInterval,      \* the interval initializeSync creates is armed
  dashPolls,         \* syncMpesaTransactions calls of the interval in flight
  mpesaTransactions, \* useState of the dashboard
  lastSync,          \* useState of the dashboard: a sync time has been set
  sinceNotify,       \* history: ticks since the last change notification
  burstLen,          \* history: notifications of the running burst
  burstFetches,      \* history: fetchTransactions calls that burst caused
  manualSync,        \* handleManualSync of the dashboard: "idle" or "awaiting"
  isSyncing,         \* useState of the dashboard
  dashToast          \* the notification the dashboard shows (react-hot-toast)

VARIABLES
  \* ---- one mounted BudgetAlerts component, and a caller of convertCurrency
  propTransactions,  \* the prop transactions of BudgetAlerts
  spendingCaps,      \* the prop spendingCaps
  categorySpending,  \* what calculateCategorySpending returned to the effect
  budgetAlerts,      \* useState alerts of BudgetAlerts
  budgetEffect,      \* the effect of BudgetAlerts: "pending", "done", "thrown"
  convArgs,          \* the arguments of a round trip through convertCurrency
  convOut            \* its results: the converted amount and the one back

VARIABLES
  earlierRuns,       \* the runs of the dashboard's sync effect before the
                     \* current one: initial syncs still awaited, intervals
                     \* they armed
  hookInstances,     \* the instances of useTransactions that are subscribed
  notices,           \* the instances the channel has yet to call back for
                     \* the change at hand
  timeouts,          \* the pending debounce timeouts, each named by the
                     \* instance whose fetchTransactions it calls
  windowFetchDebounce, \* window._fetchDebounce: the timeout set last, 0
                     \* when none was
  instFetches        \* fetchTransactions calls of each instance's timeouts

alertVars == <<alerts, nextAlertId, calls, succ>>
hookVars == <<copy, transactions, loading, error, mountedRef, toast,
              refreshes, writes, ledger, nextTxId, feed>>
detectVars == <<detects, localStorage>>
schedVars == <<subscribed, hookInterval, debounceLeft, initSync, intervalId,
               dashInterval, dashPolls, mpesaTransactions, lastSync,
               sinceNotify, burstLen, burstFetches, manualSync,
               isSyncing, dashToast>>
budgetVars == <<propTransactions, spendingCaps, categorySpending,
                budgetAlerts, budgetEffect>>
convVars == <<convArgs, convOut>>
effectVars == <<earlierRuns, hookInstances, notices, timeouts,
                windowFetchDebounce, instFetches>>
utilVars == <<budgetVars, convVars, effectVars>>
vars == <<alertVars, hookVars, detectVars, schedVars, utilVars>>

-----------------------------------------------------------------------------
(* Bounds *)

NumInstances == 2
MaxInstFetches == 2
MaxAlertId == 3      \* rows ever inserted into the alerts table
NumCallers == 2      \* createAlertIfNotExists activations that may overlap
MaxTxId == 2         \* rows ever inserted into the ledger
NumRefreshes == 2    \* fetchTransactions activations that may overlap
NumWriters == 1      \* add/update/deleteTransaction activations in flight
NumDetects == 2      \* detectAlerts activations that may overlap
TicksPerWindow == 2  \* clock ticks that make up the debounce window
MaxBurst == 2        \* change notifications in one burst
NumDashPolls == 1    \* interval-started syncMpesaTransactions in flight
MaxDelivered == 2    \* records one adapter delivers to a merge
MaxBudgetTxs == 2    \* transactions handed to BudgetAlerts

-----------------------------------------------------------------------------
(* JavaScript values *)
JsNull == "#null"
JsUndefined == "#undefined"
\* What a lookup of an inherited member ("constructor") in an object literal
\* gives: a truthy value that is no string.
JsInherited == "#Object.prototype.constructor"
Falsy == {JsNull, JsUndefined, ""}

Users == {"u1", "u2"}

\* The type values a producer may hand over: the valid ones, the ones the
\* producers of the repository use ("danger", "info"), mixed case, emoji
\* (U+1F6A8 police light, in the map; U+1F4C9 chart, not in the map), the
\* name of an inherited member, the empty string, null and a missing type.
RawTypes ==
  {"warning", "success", "neutral", "error", "info", "danger", "Warning",
   "U+1F6A8", "U+1F4C9", "constructor", "", JsNull, JsUndefined}

Titles == {"Budget Alert: Food & Dining", "Budget Exceeded: Food & Dining"}
Messages == {"You've used 92% of your $600.00 budget"}
Icons == {"U+1F6A8"}

AlertDrafts ==
  [type : RawTypes, title : Titles, message : Messages, icon : Icons]

-----------------------------------------------------------------------------
(* alertsService.js *)

VALID_TYPES == {"warning", "success", "neutral"}

\* String.prototype.toLowerCase on the strings of RawTypes.
toLowerCase(s) == IF s = "Warning" THEN "warning" ELSE s

\* typeMap[k] of normalizeAlert: the own keys of the literal, then what the
\* object inherits, else undefined.
typeMap(k) ==
  CASE k \in {"U+1F6A8", "U+26A0 U+FE0F", "U+2757", "U+1F525"} -> "warning"
    [] k \in {"U+2705", "U+1F4B0"} -> "success"
    [] k \in {"U+2139 U+FE0F", "info"} -> "neutral"
    [] k = "warning" -> "warning"
    [] k = "error" -> "warning"
    [] k = "success" -> "success"
    [] k = "neutral" -> "neutral"
    [] k = "scale" -> "neutral"
    [] k = "dollar" -> "success"
    [] k = "constructor" -> JsInherited
    [] OTHER -> JsUndefined

\* normalizeAlert without its closing checks against VALID_TYPES: the mapped
\* or lower-cased value is stored as it is.  A faulty variant, which the
\* invariant on the stored types must tell from normalizeAlert.
normalizeAlertUnchecked(alert) ==
  LET lowered == IF alert.type \in {JsNull, JsUndefined}
                 THEN JsUndefined ELSE toLowerCase(alert.type)
      t0 == IF lowered \in Falsy THEN "neutral" ELSE lowered
      mapped == typeMap(t0)
  IN [user_id |-> alert.user_id,
      type |-> IF mapped \notin Falsy THEN mapped ELSE t0,
      title |-> alert.title,
      message |-> alert.message,
      icon |-> IF alert.icon \in Falsy THEN JsNull ELSE alert.icon]

normalizeAlert(alert) ==
  LET lowered == IF alert.type \in {JsNull, JsUndefined}
                 THEN JsUndefined ELSE toLowerCase(alert.type)
      t0 == IF lowered \in Falsy THEN "neutral" ELSE lowered
      mapped == typeMap(t0)
      t1 == IF mapped \notin Falsy THEN mapped
            ELSE IF t0 \in VALID_TYPES THEN t0 ELSE "neutral"
      t2 == IF t1 \notin VALID_TYPES THEN "neutral" ELSE t1
  IN [user_id |-> alert.user_id,
      type |-> t2,
      title |-> alert.title,
      message |-> alert.message,
      icon |-> IF alert.icon \in Falsy THEN JsNull ELSE alert.icon]

\* A faulty variant, which the property C30_OnlyReadDuplicatesDeleted must
\* tell from isSimilarAlert: it does not compare the types.
isSimilarAlertByText(existingAlert, newAlert) ==
  /\ existingAlert.title = newAlert.title
  /\ existingAlert.message = newAlert.message

isSimilarAlert(existingAlert, newAlert) ==
  /\ existingAlert.title = newAlert.title
  /\ existingAlert.message = newAlert.message
  /\ existingAlert.type = newAlert.type

RECURSIVE Reverse(_)
Reverse(s) == IF s = <<>> THEN <<>> ELSE Append(Reverse(Tail(s)), Head(s))

\* select * from alerts where user_id = userId order by created_at desc;
\* on an error of the store the function returns [].
fetchAlerts(userId, ok) ==
  IF ok
  THEN Reverse(SelectSeq(alerts, LAMBDA a : a.user_id = userId))
  ELSE <<>>

\* The row the table keeps for an inserted payload: id, is_read and
\* created_at are filled in by the table.
AlertRow(payload) ==
  [id |-> nextAlertId, user_id |-> payload.user_id, type |-> payload.type,
   title |-> payload.title, message |-> payload.message,
   icon |-> payload.icon, is_read |-> FALSE, created_at |-> nextAlertId]

\* createAlert: normalize, then insert one row.
createAlert(userId, alert) ==
  Append(alerts,
         AlertRow(normalizeAlert([type |-> alert.type, title |-> alert.title,
                                  message |-> alert.message,
                                  icon |-> alert.icon, user_id |-> userId])))

\* delete from alerts where id = id
deleteAlert(rows, id) == SelectSeq(rows, LAMBDA a : a.id # id)

\* A faulty variant, which the property C22_PanelOperationsIdempotent must
\* tell from markAlertRead: it flips is_read.
markAlertReadFlips(rows, id) ==
  [i \in 1..Len(rows) |->
     IF rows[i].id = id THEN [rows[i] EXCEPT !.is_read = ~@] ELSE rows[i]]

\* update alerts set is_read = true where id = id
markAlertRead(rows, id) ==
  [i \in 1..Len(rows) |->
     IF rows[i].id = id THEN [rows[i] EXCEPT !.is_read = TRUE] ELSE rows[i]]

\* update alerts set is_read = true where user_id = userId and not is_read
markAllAlertsRead(rows, userId) ==
  [i \in 1..Len(rows) |->
     IF rows[i].user_id = userId /\ ~rows[i].is_read
     THEN [rows[i] EXCEPT !.is_read = TRUE] ELSE rows[i]]

\* delete from alerts where user_id = userId and is_read
deleteAllReadAlerts(rows, userId) ==
  SelectSeq(rows, LAMBDA a : ~(a.user_id = userId /\ a.is_read))

\* delete from alerts where user_id = userId
deleteAllUserAlerts(rows, userId) ==
  SelectSeq(rows, LAMBDA a : a.user_id # userId)

-----------------------------------------------------------------------------
(* createAlertIfNotExists, one action per await *)

Callers == 1..NumCallers
NoDraft == [type |-> JsUndefined, title |-> "", message |-> "", icon |-> JsNull]
IdleCall(result) ==
  [pc |-> "idle", userId |-> "", alert |-> NoDraft, toDelete |-> <<>>,
   result |-> result]
NoSucc == [userId |-> "", alert |-> NoDraft, next |-> 0]

\* A producer calls createAlertIfNotExists(userId, alert); the call is now
\* awaiting fetchAlerts.
createAlertIfNotExists_Call(c, userId, alert) ==
  /\ calls[c].pc = "idle"
  /\ calls' = [calls EXCEPT ![c] =
                 [pc |-> "fetching", userId |-> userId, alert |-> alert,
                  toDelete |-> <<>>, result |-> "pending"]]
  /\ succ' = IF succ.next = 0 /\ succ.userId = userId /\ succ.alert = alert
             THEN [succ EXCEPT !.next = c] ELSE NoSucc
  /\ UNCHANGED <<alerts, nextAlertId>>
  /\ UNCHANGED <<hookVars, detectVars, schedVars,
                 utilVars>>

\* fetchAlerts answers; the duplicate check and the choice of the read
\* duplicates to retire run without a further await.
createAlertIfNotExists_Fetch(c, ok) ==
  /\ calls[c].pc = "fetching"
  /\ LET existingAlerts == fetchAlerts(calls[c].userId, ok)
         newAlertData == [type |-> calls[c].alert.type,
                          title |-> calls[c].alert.title,
                          message |-> calls[c].alert.message,
                          icon |-> calls[c].alert.icon,
                          user_id |-> calls[c].userId]
         isDuplicate ==
           \E i \in 1..Len(existingAlerts) :
             isSimilarAlert(existingAlerts[i], newAlertData)
               /\ ~existingAlerts[i].is_read
         similarReadAlerts ==
           SelectSeq(existingAlerts,
                     LAMBDA a : isSimilarAlert(a, newAlertData) /\ a.is_read)
         alertsToDelete ==
           IF Len(similarReadAlerts) > 0 THEN Tail(similarReadAlerts) ELSE <<>>
     IN calls' = [calls EXCEPT ![c] =
                    IF isDuplicate THEN IdleCall("duplicate")
                    ELSE [@ EXCEPT
                            !.pc = IF alertsToDelete = <<>>
                                   THEN "inserting" ELSE "deleting",
                            !.toDelete =
                              [i \in 1..Len(alertsToDelete) |->
                                 alertsToDelete[i].id]]]
  /\ succ' = NoSucc
  /\ UNCHANGED <<alerts, nextAlertId>>
  /\ UNCHANGED <<hookVars, detectVars, schedVars,
                 utilVars>>

\* One await deleteAlert(alertToDelete.id) of the clean-up loop; an error
\* of the store is thrown out of createAlertIfNotExists.
createAlertIfNotExists_Delete(c, ok) ==
  /\ calls[c].pc = "deleting"
  /\ IF ok
     THEN /\ alerts' = deleteAlert(alerts, Head(calls[c].toDelete))
          /\ calls' = [calls EXCEPT ![c] =
                         [@ EXCEPT
                            !.toDelete = Tail(@),
                            !.pc = IF Tail(calls[c].toDelete) = <<>>
                                   THEN "inserting" ELSE "deleting"]]
     ELSE /\ calls' = [calls EXCEPT ![c] = IdleCall("error")]
          /\ UNCHANGED alerts
  /\ succ' = NoSucc
  /\ UNCHANGED nextAlertId
  /\ UNCHANGED <<hookVars, detectVars, schedVars,
                 utilVars>>

\* return await createAlert(userId, alert)
createAlertIfNotExists_Insert(c, ok) ==
  /\ calls[c].pc = "inserting"
  /\ IF ok
     THEN /\ nextAlertId <= MaxAlertId
          /\ alerts' = createAlert(calls[c].userId, calls[c].alert)
          /\ nextAlertId' = nextAlertId + 1
          /\ calls' = [calls EXCEPT ![c] = IdleCall("created")]
          /\ succ' = [userId |-> calls[c].userId, alert |-> calls[c].alert,
                      next |-> 0]
     ELSE /\ calls' = [calls EXCEPT ![c] = IdleCall("error")]
          /\ succ' = NoSucc
          /\ UNCHANGED <<alerts, nextAlertId>>
  /\ UNCHANGED <<hookVars, detectVars, schedVars,
                 utilVars>>

\* The alerts panel: markAlertRead(id), deleteAlert(id) and the bulk
\* operations; the id need not name a row any more.
AlertIds == 1..MaxAlertId

MarkAlertRead(id) ==
  /\ alerts' = markAlertRead(alerts, id)
  /\ succ' = NoSucc
  /\ UNCHANGED <<nextAlertId, calls>>
  /\ UNCHANGED <<hookVars, detectVars, schedVars,
                 utilVars>>

DeleteAlert(id) ==
  /\ alerts' = deleteAlert(alerts, id)
  /\ succ' = NoSucc
  /\ UNCHANGED <<nextAlertId, calls>>
  /\ UNCHANGED <<hookVars, detectVars, schedVars,
                 utilVars>>

MarkAllAlertsRead(userId) ==
  /\ alerts' = markAllAlertsRead(alerts, userId)
  /\ succ' = NoSucc
  /\ UNCHANGED <<nextAlertId, calls>>
  /\ UNCHANGED <<hookVars, detectVars, schedVars,
                 utilVars>>

DeleteAllReadAlerts(userId) ==
  /\ alerts' = deleteAllReadAlerts(alerts, userId)
  /\ succ' = NoSucc
  /\ UNCHANGED <<nextAlertId, calls>>
  /\ UNCHANGED <<hookVars, detectVars, schedVars,
                 utilVars>>

DeleteAllUserAlerts(userId) ==
  /\ alerts' = deleteAllUserAlerts(alerts, userId)
  /\ succ' = NoSucc
  /\ UNCHANGED <<nextAlertId, calls>>
  /\ UNCHANGED <<hookVars, detectVars, schedVars,
                 utilVars>>

-----------------------------------------------------------------------------
(* currencyUtils.js: money is kept in hundredths ("cents") of its currency *)

\* exchangeRates, times 100; a code that is not in the table has no rate
exchangeRates(c) ==
  CASE c = "USD" -> 100
    [] c = "KES" -> 12950
    [] c = "EUR" -> 92
    [] c = "GBP" -> 79
    [] c = "INR" -> 8400
    [] c = "JPY" -> 15000
    [] OTHER -> 0

\* Number.prototype.toFixed(2) of n / d, in cents (d > 0): the magnitude is
\* rounded, a tie upwards, and the sign is kept.
toFixed2(n, d) ==
  IF n >= 0 THEN (2 * n + d) \div (2 * d)
  ELSE 0 - ((2 * (0 - n) + d) \div (2 * d))

convertCurrency(amount, fromCurrency, toCurrency) ==
  IF amount = 0 THEN 0
  ELSE IF fromCurrency = toCurrency THEN amount
  ELSE LET fromRate == IF exchangeRates(fromCurrency) # 0
                       THEN exchangeRates(fromCurrency) ELSE 100
           toRate == IF exchangeRates(toCurrency) # 0
                     THEN exchangeRates(toCurrency) ELSE 100
       IN toFixed2(amount * toRate, fromRate)

-----------------------------------------------------------------------------
(* useTransactions.js: the helpers above the hook *)

HookUser == "u1"
\* Every caller of the hook passes no currency: the default applies.
selectedCurrency == "USD"

mapToDisplayCurrency(txs) ==
  [i \in 1..Len(txs) |->
     [id |-> txs[i].id, type |-> txs[i].type, amount |-> txs[i].amount,
      category |-> txs[i].category, date |-> txs[i].date,
      source |-> txs[i].source,
      display_amount |->
        convertCurrency(txs[i].amount, "USD", selectedCurrency),
      display_currency |-> selectedCurrency]]

mapToUSDForAlerts(convertedTxs) == convertedTxs

\* s.startsWith("mpesa-") on the ids the model builds
MpesaPrefixes == {"mpesa-ref-", "mpesa-tid-", "mpesa-local-"}
FeedKeys == {"QK1", "QK2"}
startsWithMpesa(id) ==
  \E p \in MpesaPrefixes, k \in FeedKeys \cup {"0", "1"} : id = p \o k

generateMpesaId(tx, index) ==
  IF tx.id \notin Falsy /\ tx.source # "mpesa" THEN tx.id
  ELSE IF tx.mpesa_reference \notin Falsy
       THEN "mpesa-ref-" \o tx.mpesa_reference
  ELSE IF tx.transaction_id \notin Falsy
       THEN "mpesa-tid-" \o tx.transaction_id
  ELSE "mpesa-local-" \o ToString(index)

\* Array.prototype.sort((a, b) => new Date(b.date) - new Date(a.date)):
\* a stable sort, latest date first.  Dates are day numbers.
RECURSIVE insertByDate(_, _)
insertByDate(sorted, tx) ==
  IF sorted = <<>> THEN <<tx>>
  ELSE IF Head(sorted).date >= tx.date
       THEN <<Head(sorted)>> \o insertByDate(Tail(sorted), tx)
       ELSE <<tx>> \o sorted

\* A sort that puts a record before the records of its own date.  A faulty
\* variant, which the property that ties keep their input order must tell
\* from sortByDate.
RECURSIVE insertBeforeEqual(_, _)
insertBeforeEqual(sorted, tx) ==
  IF sorted = <<>> THEN <<tx>>
  ELSE IF Head(sorted).date > tx.date
       THEN <<Head(sorted)>> \o insertBeforeEqual(Tail(sorted), tx)
       ELSE <<tx>> \o sorted

RECURSIVE sortByDateUnstable(_)
sortByDateUnstable(txs) ==
  IF txs = <<>> THEN <<>>
  ELSE insertBeforeEqual(sortByDateUnstable(SubSeq(txs, 1, Len(txs) - 1)),
                         txs[Len(txs)])

RECURSIVE sortByDate(_)
sortByDate(txs) ==
  IF txs = <<>> THEN <<>>
  ELSE insertByDate(sortByDate(SubSeq(txs, 1, Len(txs) - 1)), txs[Len(txs)])

\* transactionType.toLowerCase().includes("receive")
includesReceive(transactionType) ==
  transactionType \in {"receive", "Receive Money"}

\* parseFloat(tx.amount) || 0: a record that carries no amount parseFloat
\* can read (none at all, or a text that is no number) gets NaN, then 0.
parseAmountOrZero(tx) == IF "amount" \in DOMAIN tx THEN tx.amount ELSE 0

\* new Date().toISOString().split("T")[0], as a day number
today == 9

\* tx.date || today
dateOrToday(tx) == IF "date" \in DOMAIN tx THEN tx.date ELSE today

\* One raw record of the feed, normalized (lines 180-207); index from 0.
normalizeMpesa(tx, index) ==
  [id |-> generateMpesaId(tx, index),
   type |-> IF includesReceive(tx.transaction_type)
            THEN "income" ELSE "expense",
   amount |-> convertCurrency(parseAmountOrZero(tx), "KES", "USD"),
   category |-> IF tx.category \in Falsy THEN "M-Pesa" ELSE tx.category,
   date |-> dateOrToday(tx),
   source |-> "mpesa"]

\* What fetchMpesaTransactions returns: the normalized records when the
\* request succeeds, [] when the answer is not ok or the request times out.
PollResults == {"ok", "not_ok", "timeout"}
fetchMpesaTransactions(res) ==
  IF res = "ok"
  THEN [i \in 1..Len(feed) |-> normalizeMpesa(feed[i], i - 1)]
  ELSE <<>>

\* select * from transactions where user_id = ... order by date desc
selectLedger == sortByDate(ledger)

-----------------------------------------------------------------------------
(* useTransactions.js: detectAlerts, one action per await *)

budgetLimit == 1000 * 100
warningThreshold == (budgetLimit * 8) \div 10
largeTxThreshold == 500 * 100

\* Dates are day numbers; day 1 is the first day of the running month.
isThisMonth(date) == date >= 1

RECURSIVE sumAmounts(_, _)
sumAmounts(txs, type) ==
  IF txs = <<>> THEN 0
  ELSE (IF Head(txs).type = type /\ isThisMonth(Head(txs).date)
        THEN Head(txs).amount ELSE 0) + sumAmounts(Tail(txs), type)

\* amount.toFixed(2) of an amount in cents
moneyString(cents) ==
  ToString(cents \div 100) \o "."
    \o ToString((cents % 100) \div 10) \o ToString(cents % 10)

\* Math.round((totalExpense / budgetLimit) * 100)
percentOfBudget(totalExpense) ==
  (2 * totalExpense * 100 + budgetLimit) \div (2 * budgetLimit)

Detectors == 1..NumDetects
DetectStages == <<"warning", "exceeded", "negative", "large">>
NoLarge == [id |-> "", amount |-> 0, category |-> ""]
IdleDetect ==
  [pc |-> "idle", totalExpense |-> 0, totalIncome |-> 0, large |-> NoLarge]

\* The transactions txs.find may return: the test on created_at reads the
\* clock, so any transaction of at least the threshold may be the first
\* recent one, or none may be recent.
LargeChoices(txs) ==
  {NoLarge} \cup
  {[id |-> txs[i].id, amount |-> txs[i].amount, category |-> txs[i].category] :
     i \in {j \in 1..Len(txs) : txs[j].amount >= largeTxThreshold}}

\* The key of the flag that guards a stage in the first copy.
alertKey(stage, d) ==
  CASE stage = "warning" -> "alert_warning"
    [] stage = "exceeded" -> "alert_danger_exceeded"
    [] stage = "negative" -> "alert_danger_negative"
    [] stage = "large" -> "alert_large_tx_" \o d.large.id

\* The condition of the if that guards the stage's createAlert.
stageHolds(stage, d, ls) ==
  /\ CASE stage = "warning" ->
            d.totalExpense >= warningThreshold /\ d.totalExpense < budgetLimit
       [] stage = "exceeded" -> d.totalExpense >= budgetLimit
       [] stage = "negative" ->
            d.totalExpense > d.totalIncome /\ (copy = 2 \/ d.totalExpense > 0)
       [] stage = "large" -> d.large # NoLarge
  /\ copy = 1 => alertKey(stage, d) \notin ls

\* The first stage after stage k whose createAlert runs; 0 when none does.
RECURSIVE nextStage(_, _, _)
nextStage(k, d, ls) ==
  IF k >= Len(DetectStages) THEN 0
  ELSE IF stageHolds(DetectStages[k + 1], d, ls) THEN k + 1
  ELSE nextStage(k + 1, d, ls)

\* The alert a stage hands to createAlert (icons by code point; the first
\* copy holds them mis-encoded).
detectDraft(stage, d) ==
  LET usd == IF copy = 2 THEN " USD" ELSE ""
      inUsd == IF copy = 2 THEN " (in USD)" ELSE ""
  IN CASE stage = "warning" ->
            [type |-> "warning", title |-> "Spending Alert",
             message |-> "You've used "
                \o ToString(percentOfBudget(d.totalExpense))
                \o "% of your $1000 monthly budget" \o inUsd \o ".",
             icon |-> "U+26A0 U+FE0F"]
       [] stage = "exceeded" ->
            [type |-> "danger", title |-> "Budget Exceeded",
             message |-> "You've exceeded your $1000 monthly limit! "
                \o "Total expense: $" \o moneyString(d.totalExpense)
                \o usd \o ".",
             icon |-> "U+1F6A8"]
       [] stage = "negative" ->
            [type |-> "danger", title |-> "Negative Savings",
             message |-> "Expenses ($" \o moneyString(d.totalExpense)
                \o ") exceed income ($" \o moneyString(d.totalIncome)
                \o ") this month" \o inUsd \o ".",
             icon |-> "U+1F4C9"]
       [] stage = "large" ->
            [type |-> "info", title |-> "Large Transaction",
             message |-> "A transaction of $" \o moneyString(d.large.amount)
                \o usd \o " was recorded in "
                \o (IF d.large.category \in Falsy THEN "Uncategorized"
                    ELSE d.large.category) \o ".",
             icon |-> "U+1F4B0"]

\* The totals detectAlerts computes, and the transaction its find returns.
detectTotals(txs, large) ==
  [pc |-> "idle", totalExpense |-> sumAmounts(txs, "expense"),
   totalIncome |-> sumAmounts(txs, "income"), large |-> large]

\* detectAlerts(txs) up to its first await: the value of detects after the
\* call.  Nothing is left behind when no stage runs.
detectAlerts(txs, large) ==
  LET d == detectTotals(txs, large)
      k == nextStage(0, d, localStorage)
      free == {x \in Detectors : detects[x].pc = "idle"}
  IN IF txs = <<>> \/ k = 0 THEN detects
     ELSE [detects EXCEPT ![CHOOSE x \in free : \A y \in free : x <= y] =
             [d EXCEPT !.pc = DetectStages[k]]]

\* The call can be taken: it starts no stage, or an activation is free.
canDetect(txs, large) ==
  \/ txs = <<>>
  \/ nextStage(0, detectTotals(txs, large), localStorage) = 0
  \/ \E x \in Detectors : detects[x].pc = "idle"

stageIndex(stage) == CHOOSE k \in 1..Len(DetectStages) : DetectStages[k] = stage

\* The createAlert a stage awaits answers: the row is in the table, the
\* first copy sets its flag, and the next stage is looked for.  A rejected
\* insert is thrown out of detectAlerts.
detectAlerts_Insert(x, ok) ==
  /\ detects[x].pc # "idle"
  /\ IF ok
     THEN LET d == detects[x]
              ls == IF copy = 1
                    THEN localStorage \cup {alertKey(d.pc, d)}
                    ELSE localStorage
              k == nextStage(stageIndex(d.pc), d, ls)
          IN /\ nextAlertId <= MaxAlertId
             /\ alerts' = createAlert(HookUser, detectDraft(d.pc, d))
             /\ nextAlertId' = nextAlertId + 1
             /\ localStorage' = ls
             /\ detects' = [detects EXCEPT ![x] =
                              IF k = 0 THEN IdleDetect
                              ELSE [d EXCEPT !.pc = DetectStages[k]]]
     ELSE /\ detects' = [detects EXCEPT ![x] = IdleDetect]
          /\ UNCHANGED <<alerts, nextAlertId, localStorage>>
  /\ succ' = NoSucc
  /\ UNCHANGED <<calls, hookVars, schedVars,
                 utilVars>>

-----------------------------------------------------------------------------
(* useTransactions.js: fetchTransactions, one action per await *)

Refreshers == 1..NumRefreshes
IdleRefresh == [pc |-> "idle", supabaseData |-> <<>>, outcome |-> "none"]

\* fetchTransactions up to its first await: setLoading(true), setError(null)
\* and the select is sent.  The same lines open both copies.  The call
\* runs as the first activation that is free.
fetchTransactions_Start(r) ==
  /\ refreshes[r].pc = "idle"
  /\ \A q \in Refreshers : refreshes[q].pc = "idle" => r <= q
  /\ loading' = TRUE
  /\ error' = JsNull
  /\ refreshes' = [refreshes EXCEPT ![r] =
                     [pc |-> "selecting", supabaseData |-> <<>>,
                      outcome |-> "pending"]]

\* A trigger (the mount effect, the interval, the debounced notification)
\* calls fetchTransactions; the clean-ups of the effects leave no trigger
\* of the hook behind.
fetchTransactions_Call(r) ==
  /\ mountedRef
  /\ fetchTransactions_Start(r)
  /\ UNCHANGED <<copy, transactions, mountedRef, toast, writes, ledger,
                 nextTxId, feed, alertVars, detectVars, schedVars,
                 utilVars>>

\* The catch block of the first copy without its finally block: loading
\* stays as it is.  A faulty variant, which the property that every call
\* ends with loading false must tell from fetchTransactions_Catch.
fetchTransactions_CatchStuck ==
  /\ toast' = "Failed to load transactions"
  /\ error' = IF mountedRef THEN "Failed to load transactions." ELSE error
  /\ transactions' = IF mountedRef THEN <<>> ELSE transactions
  /\ UNCHANGED loading

\* The catch and finally blocks of the first copy.
fetchTransactions_Catch ==
  /\ toast' = "Failed to load transactions"
  /\ error' = IF mountedRef THEN "Failed to load transactions." ELSE error
  /\ transactions' = IF mountedRef THEN <<>> ELSE transactions
  /\ loading' = IF mountedRef THEN FALSE ELSE loading

\* First copy: the select answers.  With rows, fetchMpesaTransactions is
\* awaited next; with an error, the catch block runs.
fetchTransactions_Select(r, ok) ==
  /\ copy = 1
  /\ refreshes[r].pc = "selecting"
  /\ IF ok
     THEN /\ refreshes' = [refreshes EXCEPT ![r] =
                             [@ EXCEPT !.pc = "polling",
                                       !.supabaseData = selectLedger]]
          /\ UNCHANGED <<transactions, loading, error, toast>>
     ELSE /\ fetchTransactions_Catch
          /\ refreshes' = [refreshes EXCEPT ![r] = IdleRefresh]
  /\ UNCHANGED <<copy, mountedRef, writes, ledger, nextTxId, feed,
                 alertVars, detectVars, schedVars,
                 utilVars>>

\* First copy: fetchMpesaTransactions answers; merge, sort, and (mounted)
\* setTransactions, detectAlerts, setLoading(false).
fetchTransactions_Poll(r, res) ==
  /\ copy = 1
  /\ refreshes[r].pc = "polling"
  /\ LET mpesaData == fetchMpesaTransactions(res)
         rawTxs == refreshes[r].supabaseData \o mpesaData
         sortedTxs == sortByDate(rawTxs)
     IN IF mountedRef
        THEN \E large \in LargeChoices(sortedTxs) :
               /\ canDetect(sortedTxs, large)
               /\ transactions' = mapToDisplayCurrency(sortedTxs)
               /\ detects' = detectAlerts(sortedTxs, large)
               /\ loading' = FALSE
        ELSE UNCHANGED <<transactions, detects, loading>>
  /\ refreshes' = [refreshes EXCEPT ![r] =
                     IdleRefresh]
  /\ UNCHANGED <<copy, error, mountedRef, toast, writes, ledger, nextTxId,
                 feed, alertVars, localStorage, schedVars,
                 utilVars>>

\* Second copy: the select answers with rows or with an error.
fetchTransactions2_Select(r, ok) ==
  /\ copy = 2
  /\ refreshes[r].pc = "selecting"
  /\ refreshes' = [refreshes EXCEPT ![r] =
                     [pc |-> "selected",
                      supabaseData |-> IF ok THEN selectLedger ELSE <<>>,
                      outcome |-> IF ok THEN "data" ELSE "error"]]
  /\ UNCHANGED <<copy, transactions, loading, error, mountedRef, toast,
                 writes, ledger, nextTxId, feed, alertVars, detectVars, schedVars,
                 utilVars>>

\* Second copy, lines 634-650: the code after the await.
fetchTransactions2_Apply(r) ==
  /\ copy = 2
  /\ refreshes[r].pc = "selected"
  /\ IF refreshes[r].outcome = "error"
     THEN /\ toast' = "Failed to load transactions"
          /\ error' = IF mountedRef THEN "Failed to load transactions."
                      ELSE error
          /\ transactions' = <<>>
          /\ UNCHANGED detects
     ELSE /\ IF mountedRef
             THEN \E large \in LargeChoices(refreshes[r].supabaseData) :
                    /\ canDetect(refreshes[r].supabaseData, large)
                    /\ transactions' =
                         mapToDisplayCurrency(refreshes[r].supabaseData)
                    /\ detects' = detectAlerts(refreshes[r].supabaseData, large)
             ELSE UNCHANGED <<transactions, detects>>
          /\ UNCHANGED <<toast, error>>
  /\ loading' = IF mountedRef THEN FALSE ELSE loading
  /\ refreshes' = [refreshes EXCEPT ![r] =
                     IdleRefresh]
  /\ UNCHANGED <<copy, mountedRef, writes, ledger, nextTxId, feed,
                 alertVars, localStorage, schedVars,
                 utilVars>>

\* The component that owns the hook is torn down.
Unmount ==
  /\ mountedRef
  /\ mountedRef' = FALSE
  /\ UNCHANGED <<copy, transactions, loading, error, toast, refreshes,
                 writes, ledger, nextTxId, feed, alertVars, detectVars, schedVars,
                 utilVars>>

\* The provider's answer changes.
mpesaRecord(key, kind, amountKES, date) ==
  [id |-> JsUndefined, source |-> JsUndefined, mpesa_reference |-> JsUndefined,
   transaction_id |-> key, transaction_type |-> kind, amount |-> amountKES,
   date |-> date, category |-> JsUndefined]
FeedContents ==
  {<<>>,
   <<mpesaRecord("QK1", "receive", 129500, 3),
     mpesaRecord("QK2", "Receive Money", 259000, 6)>>}
FeedChange(records) ==
  /\ feed # records
  /\ feed' = records
  /\ UNCHANGED <<copy, transactions, loading, error, mountedRef, toast,
                 refreshes, writes, ledger, nextTxId, alertVars, detectVars, schedVars,
                 utilVars>>

-----------------------------------------------------------------------------
(* useTransactions.js: addTransaction, updateTransaction, deleteTransaction *)

Writers == 1..NumWriters
IdleWrite ==
  [pc |-> "idle", kind |-> "", id |-> "", data |-> <<>>, closure |-> <<>>,
   outcome |-> "none"]

\* A call runs as the first activation that is free.
freeWriter(w) ==
  /\ writes[w].pc = "idle"
  /\ \A v \in Writers : writes[v].pc = "idle" => w <= v

\* What the forms hand over.
AddInputs ==
  {[type |-> "income", amount |-> 1295000, currency |-> "KES",
    category |-> "gift", date |-> 8]}
UpdateInputs == {[amount |-> 7000, currency |-> "USD"]}

ledgerRow(id, tx, amount) ==
  [id |-> id, type |-> tx.type, amount |-> amount, category |-> tx.category,
   date |-> tx.date, source |-> JsUndefined]

listedIds == {transactions[i].id : i \in 1..Len(transactions)}

\* addTransaction up to its await: the payload, in USD, is sent.
addTransaction_Call(w, tx) ==
  /\ mountedRef
  /\ freeWriter(w)
  /\ error' = JsNull
  /\ loading' = TRUE
  /\ writes' = [writes EXCEPT ![w] =
       [pc |-> "sent", kind |-> "add", id |-> "",
        data |-> <<ledgerRow("", tx,
                             convertCurrency(tx.amount, tx.currency, "USD"))>>,
        closure |-> transactions, outcome |-> "pending"]]
  /\ UNCHANGED <<copy, transactions, mountedRef, toast, refreshes, ledger,
                 nextTxId, feed, alertVars, detectVars, schedVars,
                 utilVars>>

\* updateTransaction up to its await.  The first copy turns away the ids
\* of feed transactions.
updateTransaction_Call(w, id, updates) ==
  /\ mountedRef
  /\ freeWriter(w)
  /\ id \in listedIds
  /\ error' = JsNull
  /\ IF copy = 1 /\ startsWithMpesa(id)
     THEN /\ toast' = "M-Pesa transactions cannot be directly updated."
          /\ UNCHANGED writes
     ELSE /\ writes' = [writes EXCEPT ![w] =
               [pc |-> "sent", kind |-> "update", id |-> id,
                data |-> <<[amount |-> convertCurrency(updates.amount,
                                         updates.currency, "USD")]>>,
                closure |-> transactions, outcome |-> "pending"]]
          /\ UNCHANGED toast
  /\ UNCHANGED <<copy, transactions, loading, mountedRef, refreshes, ledger,
                 nextTxId, feed, alertVars, detectVars, schedVars,
                 utilVars>>

\* deleteTransaction up to its await.
deleteTransaction_Call(w, id) ==
  /\ mountedRef
  /\ freeWriter(w)
  /\ id \in listedIds
  /\ error' = JsNull
  /\ IF copy = 1 /\ startsWithMpesa(id)
     THEN /\ toast' = "M-Pesa transactions cannot be deleted directly."
          /\ UNCHANGED writes
     ELSE /\ writes' = [writes EXCEPT ![w] =
               [pc |-> "sent", kind |-> "delete", id |-> id, data |-> <<>>,
                closure |-> transactions, outcome |-> "pending"]]
          /\ UNCHANGED toast
  /\ UNCHANGED <<copy, transactions, loading, mountedRef, refreshes, ledger,
                 nextTxId, feed, alertVars, detectVars, schedVars,
                 utilVars>>

\* The store executes the request, or rejects it.  insert(...).select()
\* and update(...).select() answer with the rows written.
ledgerWrite(w, ok) ==
  /\ writes[w].pc = "sent"
  /\ IF ~ok
     THEN /\ writes' = [writes EXCEPT ![w] =
                          [@ EXCEPT !.pc = "answered", !.outcome = "error"]]
          /\ UNCHANGED <<ledger, nextTxId>>
     ELSE CASE writes[w].kind = "add" ->
                 LET row == [writes[w].data[1] EXCEPT
                               !.id = "tx" \o ToString(nextTxId)]
                 IN /\ nextTxId <= MaxTxId
                    /\ ledger' = Append(ledger, row)
                    /\ nextTxId' = nextTxId + 1
                    /\ writes' = [writes EXCEPT ![w] =
                                    [@ EXCEPT !.pc = "answered",
                                              !.data = <<row>>,
                                              !.outcome = "data"]]
            [] writes[w].kind = "update" ->
                 LET new == [i \in 1..Len(ledger) |->
                               IF ledger[i].id = writes[w].id
                               THEN [ledger[i] EXCEPT
                                       !.amount = writes[w].data[1].amount]
                               ELSE ledger[i]]
                 IN /\ ledger' = new
                    /\ writes' = [writes EXCEPT ![w] =
                         [@ EXCEPT !.pc = "answered",
                                   !.data = SelectSeq(new,
                                      LAMBDA t : t.id = writes[w].id),
                                   !.outcome = "data"]]
                    /\ UNCHANGED nextTxId
            [] writes[w].kind = "delete" ->
                 /\ ledger' = SelectSeq(ledger, LAMBDA t : t.id # writes[w].id)
                 /\ writes' = [writes EXCEPT ![w] =
                                 [@ EXCEPT !.pc = "answered",
                                           !.outcome = "data"]]
                 /\ UNCHANGED nextTxId
  /\ UNCHANGED <<copy, transactions, loading, error, mountedRef, toast,
                 refreshes, feed, alertVars, detectVars, schedVars,
                 utilVars>>

\* A failure handler that clears the list, as the handler of
\* fetchTransactions does.  A faulty variant, which the property of the
\* rejected writes must tell from writeCatch.
writeCatchClears(message) ==
  /\ toast' = message
  /\ error' = IF mountedRef THEN message \o "." ELSE error
  /\ transactions' = IF mountedRef THEN <<>> ELSE transactions
  /\ UNCHANGED detects

\* The catch block (first copy) or the if (error) block (second copy) of
\* the three writers: toast.error, and setError when mounted.
writeCatch(message) ==
  /\ toast' = message
  /\ error' = IF mountedRef THEN message \o "." ELSE error
  /\ UNCHANGED <<transactions, detects>>

\* addTransaction after its await.
addTransaction_Apply(w) ==
  /\ writes[w].pc = "answered"
  /\ writes[w].kind = "add"
  /\ IF writes[w].outcome = "error"
     THEN writeCatch("Failed to add transaction")
     ELSE IF mountedRef
     THEN LET newTx == writes[w].data[1]
              convertedNewTx == mapToDisplayCurrency(<<newTx>>)[1]
              prev == IF copy = 1 THEN transactions ELSE writes[w].closure
              updated == sortByDate(<<convertedNewTx>> \o prev)
              forAlerts == IF copy = 1
                           THEN <<newTx>> \o mapToUSDForAlerts(writes[w].closure)
                           ELSE mapToUSDForAlerts(updated)
          IN \E large \in LargeChoices(forAlerts) :
               /\ canDetect(forAlerts, large)
               /\ transactions' = updated
               /\ toast' = "Transaction added!"
               /\ detects' = detectAlerts(forAlerts, large)
               /\ UNCHANGED error
     ELSE UNCHANGED <<transactions, toast, detects, error>>
  /\ loading' = IF mountedRef THEN FALSE ELSE loading
  /\ writes' = [writes EXCEPT ![w] = IdleWrite]
  /\ UNCHANGED <<copy, mountedRef, refreshes, ledger, nextTxId, feed,
                 alertVars, localStorage, schedVars,
                 utilVars>>

\* updateTransaction after its await.
updateTransaction_Apply(w) ==
  /\ writes[w].pc = "answered"
  /\ writes[w].kind = "update"
  /\ IF writes[w].outcome = "error"
     THEN writeCatch("Failed to update transaction")
     ELSE IF writes[w].data # <<>> /\ mountedRef
     THEN LET updatedTx == writes[w].data[1]
              convertedUpdatedTx == mapToDisplayCurrency(<<updatedTx>>)[1]
              prev == IF copy = 1 THEN transactions ELSE writes[w].closure
              updatedTxs == [i \in 1..Len(prev) |->
                               IF prev[i].id = writes[w].id
                               THEN convertedUpdatedTx ELSE prev[i]]
              forAlerts ==
                IF copy = 1
                THEN [i \in 1..Len(writes[w].closure) |->
                        IF writes[w].closure[i].id = writes[w].id
                        THEN updatedTx ELSE writes[w].closure[i]]
                ELSE mapToUSDForAlerts(updatedTxs)
          IN \E large \in LargeChoices(forAlerts) :
               /\ canDetect(forAlerts, large)
               /\ transactions' = updatedTxs
               /\ toast' = "Transaction updated!"
               /\ detects' = detectAlerts(forAlerts, large)
               /\ UNCHANGED error
     ELSE UNCHANGED <<transactions, toast, detects, error>>
  /\ writes' = [writes EXCEPT ![w] = IdleWrite]
  /\ UNCHANGED <<copy, loading, mountedRef, refreshes, ledger, nextTxId,
                 feed, alertVars, localStorage, schedVars,
                 utilVars>>

\* deleteTransaction after its await.
deleteTransaction_Apply(w) ==
  /\ writes[w].pc = "answered"
  /\ writes[w].kind = "delete"
  /\ IF writes[w].outcome = "error"
     THEN writeCatch("Failed to delete transaction")
     ELSE IF mountedRef
     THEN LET remainingTxs == SelectSeq(writes[w].closure,
                                        LAMBDA t : t.id # writes[w].id)
          IN \E large \in LargeChoices(remainingTxs) :
               /\ canDetect(remainingTxs, large)
               /\ transactions' = remainingTxs
               /\ toast' = "Transaction deleted"
               /\ detects' = detectAlerts(mapToUSDForAlerts(remainingTxs), large)
               /\ UNCHANGED error
     ELSE UNCHANGED <<transactions, toast, detects, error>>
  /\ writes' = [writes EXCEPT ![w] = IdleWrite]
  /\ UNCHANGED <<copy, loading, mountedRef, refreshes, ledger, nextTxId,
                 feed, alertVars, localStorage, schedVars,
                 utilVars>>

-----------------------------------------------------------------------------
(* Initial states and specifications *)

AlertsAtRest ==
  /\ alerts = <<>>
  /\ nextAlertId = 1
  /\ calls = [c \in Callers |-> IdleCall("none")]
  /\ succ = NoSucc

DetectsAtRest ==
  /\ detects = [x \in Detectors |-> IdleDetect]
  /\ localStorage = {}

\* No BudgetAlerts component is mounted and convertCurrency has no caller.
NoArgs == [amount |-> 0, fromCurrency |-> "USD", toCurrency |-> "USD"]
NoEarlierRuns == [awaiting |-> 0, armed |-> 0]
Instances == 1..NumInstances
EffectsAtRest ==
  /\ earlierRuns = NoEarlierRuns
  /\ hookInstances = {}
  /\ notices = {}
  /\ timeouts = {}
  /\ windowFetchDebounce = 0
  /\ instFetches = [i \in Instances |-> 0]

UtilsAtRest ==
  /\ EffectsAtRest
  /\ propTransactions = <<>>
  /\ spendingCaps = <<>>
  /\ categorySpending = <<>>
  /\ budgetAlerts = <<>>
  /\ budgetEffect = "done"
  /\ convArgs = NoArgs
  /\ convOut = <<>>

\* No timer, subscription or dashboard is part of the run.
SchedAtRest ==
  /\ subscribed = FALSE
  /\ hookInterval = FALSE
  /\ debounceLeft = -1
  /\ initSync = "done"
  /\ intervalId = JsUndefined
  /\ dashInterval = FALSE
  /\ dashPolls = 0
  /\ mpesaTransactions = <<>>
  /\ lastSync = FALSE
  /\ sinceNotify = TicksPerWindow
  /\ burstLen = 0
  /\ manualSync = "idle"
  /\ isSyncing = FALSE
  /\ dashToast = "#none"
  /\ burstFetches = 0

\* The hook right after useState/useRef ran, over the given stores.
HookMounted(rows, records) ==
  /\ transactions = <<>>
  /\ loading = TRUE
  /\ error = JsNull
  /\ mountedRef = TRUE
  /\ toast = "#none"
  /\ refreshes = [r \in Refreshers |-> IdleRefresh]
  /\ writes = [w \in Writers |-> IdleWrite]
  /\ ledger = rows
  /\ nextTxId = 1
  /\ feed = records

\* A ledger of a user who has one income row.
IncomeLedger ==
  <<[id |-> "tx0", type |-> "income", amount |-> 30000,
     category |-> "salary", date |-> 5, source |-> JsUndefined]>>

\* ---- the alert store under concurrent createAlertIfNotExists calls
StoreTypes == {"warning", "error", "success"}
StoreDrafts ==
  [type : StoreTypes, title : {"Budget Alert: Food & Dining"},
   message : Messages, icon : Icons]

InitAlerts ==
  /\ AlertsAtRest
  /\ DetectsAtRest
  /\ UtilsAtRest
  /\ SchedAtRest
  /\ copy = 1
  /\ HookMounted(<<>>, <<>>)

NextAlerts ==
  \/ \E c \in Callers, a \in StoreDrafts :
       createAlertIfNotExists_Call(c, "u1", a)
  \/ \E c \in Callers, ok \in BOOLEAN : createAlertIfNotExists_Fetch(c, ok)
  \/ \E c \in Callers, ok \in BOOLEAN : createAlertIfNotExists_Delete(c, ok)
  \/ \E c \in Callers, ok \in BOOLEAN : createAlertIfNotExists_Insert(c, ok)
  \/ \E id \in AlertIds : MarkAlertRead(id)
  \/ \E id \in AlertIds : DeleteAlert(id)
  \/ \E u \in Users : MarkAllAlertsRead(u)
  \/ \E u \in Users : DeleteAllReadAlerts(u)
  \/ \E u \in Users : DeleteAllUserAlerts(u)

SpecAlerts == InitAlerts /\ [][NextAlerts]_vars

\* ---- the alert store under every type value a producer may hand over
\* A producer that calls createAlert itself (detectAlerts, the alerts
\* panel): the row is in the table when the insert answers.
CreateAlert(userId, alert, ok) ==
  /\ IF ok
     THEN /\ nextAlertId <= MaxAlertId
          /\ alerts' = createAlert(userId, alert)
          /\ nextAlertId' = nextAlertId + 1
     ELSE UNCHANGED <<alerts, nextAlertId>>
  /\ succ' = NoSucc
  /\ UNCHANGED calls
  /\ UNCHANGED <<hookVars, detectVars, schedVars,
                 utilVars>>

TypeDrafts ==
  [type : RawTypes, title : {"Budget Alert: Food & Dining"},
   message : Messages, icon : Icons]

NextTypes ==
  \/ \E a \in TypeDrafts : createAlertIfNotExists_Call(1, "u1", a)
  \/ \E ok \in BOOLEAN : createAlertIfNotExists_Fetch(1, ok)
  \/ \E ok \in BOOLEAN : createAlertIfNotExists_Delete(1, ok)
  \/ \E ok \in BOOLEAN : createAlertIfNotExists_Insert(1, ok)
  \/ \E a \in TypeDrafts, ok \in BOOLEAN : CreateAlert("u1", a, ok)
  \/ \E id \in AlertIds : MarkAlertRead(id)

SpecTypes == InitAlerts /\ [][NextTypes]_vars

\* ---- the hook: overlapping refreshes, additions, teardown, a changing feed
Init ==
  /\ AlertsAtRest
  /\ DetectsAtRest
  /\ UtilsAtRest
  /\ SchedAtRest
  /\ copy \in {1, 2}
  /\ \E records \in FeedContents : HookMounted(IncomeLedger, records)

Next ==
  \/ \E r \in Refreshers : fetchTransactions_Call(r)
  \/ \E r \in Refreshers, ok \in BOOLEAN : fetchTransactions_Select(r, ok)
  \/ \E r \in Refreshers, res \in PollResults : fetchTransactions_Poll(r, res)
  \/ \E r \in Refreshers, ok \in BOOLEAN : fetchTransactions2_Select(r, ok)
  \/ \E r \in Refreshers : fetchTransactions2_Apply(r)
  \/ \E w \in Writers, tx \in AddInputs : addTransaction_Call(w, tx)
  \/ \E w \in Writers, ok \in BOOLEAN : ledgerWrite(w, ok)
  \/ \E w \in Writers : addTransaction_Apply(w)
  \/ \E records \in FeedContents : FeedChange(records)
  \/ Unmount

Spec == Init /\ [][Next]_vars

\* ---- the hook after its first fetch: the three writers, one call at a
\* time, and teardown
\* The hook once the fetch of the mount effect has been applied.
HookLoaded(rows, records) ==
  /\ transactions =
       mapToDisplayCurrency(sortByDate(sortByDate(rows) \o
          (IF copy = 1
           THEN [i \in 1..Len(records) |-> normalizeMpesa(records[i], i - 1)]
           ELSE <<>>)))
  /\ loading = FALSE
  /\ error = JsNull
  /\ mountedRef = TRUE
  /\ toast = "#none"
  /\ refreshes = [r \in Refreshers |-> IdleRefresh]
  /\ writes = [w \in Writers |-> IdleWrite]
  /\ ledger = rows
  /\ nextTxId = 1
  /\ feed = records

InitWrites ==
  /\ AlertsAtRest
  /\ DetectsAtRest
  /\ UtilsAtRest
  /\ SchedAtRest
  /\ copy \in {1, 2}
  /\ \E records \in FeedContents : HookLoaded(IncomeLedger, records)

NextWrites ==
  \/ \E tx \in AddInputs : addTransaction_Call(1, tx)
  \/ \E id \in listedIds, u \in UpdateInputs : updateTransaction_Call(1, id, u)
  \/ \E id \in listedIds : deleteTransaction_Call(1, id)
  \/ \E ok \in BOOLEAN : ledgerWrite(1, ok)
  \/ addTransaction_Apply(1)
  \/ updateTransaction_Apply(1)
  \/ deleteTransaction_Apply(1)
  \/ Unmount

SpecWrites == InitWrites /\ [][NextWrites]_vars

-----------------------------------------------------------------------------
(* The timers: the realtime and auto-sync effects of the hook, the sync     *)
(* effect of MainDashboard.  Time passes in ticks, TicksPerWindow of them   *)
(* making up the 800 ms of the debounce; the intervals (5 minutes, 60 s)    *)
(* are far longer and fire at any moment while they are armed.              *)

\* slice(-5) of an array
lastFive(txs) ==
  IF Len(txs) <= 5 THEN txs ELSE SubSeq(txs, Len(txs) - 4, Len(txs))

\* The frame of a timer callback that calls fetchTransactions.
fetchTransactions_Frame ==
  UNCHANGED <<copy, transactions, mountedRef, toast, writes, ledger,
              nextTxId, feed, alertVars, detectVars, utilVars>>

\* The channel delivers a change notification.  First copy: the callback
\* clears window._fetchDebounce and arms it anew.  Second copy: the
\* callback calls fetchTransactions.
Notify ==
  /\ subscribed
  /\ debounceLeft # 0
  /\ LET fresh == sinceNotify >= TicksPerWindow
         len == IF fresh THEN 1 ELSE burstLen + 1
         fetched == IF fresh THEN 0 ELSE burstFetches
     IN /\ len <= MaxBurst
        /\ burstLen' = len
        /\ sinceNotify' = 0
        /\ IF copy = 1
           THEN /\ debounceLeft' = TicksPerWindow
                /\ burstFetches' = fetched
                /\ UNCHANGED <<refreshes, loading, error>>
           ELSE /\ \E r \in Refreshers : fetchTransactions_Start(r)
                /\ burstFetches' = fetched + 1
                /\ UNCHANGED debounceLeft
  /\ fetchTransactions_Frame
  /\ UNCHANGED <<subscribed, hookInterval, initSync, intervalId, dashInterval,
                 dashPolls, mpesaTransactions, lastSync, manualSync, isSyncing,
                 dashToast>>

\* A tick of the clock; a timeout that is due fires before time goes on.
Tick ==
  /\ debounceLeft # 0
  /\ sinceNotify < TicksPerWindow
  /\ sinceNotify' = sinceNotify + 1
  /\ debounceLeft' = IF debounceLeft > 0 THEN debounceLeft - 1 ELSE debounceLeft
  /\ UNCHANGED <<subscribed, hookInterval, initSync, intervalId, dashInterval,
                 dashPolls, mpesaTransactions, lastSync, burstLen, manualSync, isSyncing, dashToast,
                 burstFetches>>
  /\ UNCHANGED <<alertVars, hookVars, detectVars, utilVars>>

\* window._fetchDebounce fires: fetchTransactions().
Debounce_Fire ==
  /\ debounceLeft = 0
  /\ \E r \in Refreshers : fetchTransactions_Start(r)
  /\ debounceLeft' = -1
  /\ burstFetches' = burstFetches + 1
  /\ fetchTransactions_Frame
  /\ UNCHANGED <<subscribed, hookInterval, initSync, intervalId, dashInterval,
                 dashPolls, mpesaTransactions, lastSync, sinceNotify,
                 burstLen, manualSync, isSyncing, dashToast>>

\* The 5-minute interval of the first copy fires: fetchTransactions().
HookInterval_Fire ==
  /\ hookInterval
  /\ \E r \in Refreshers : fetchTransactions_Start(r)
  /\ fetchTransactions_Frame
  /\ UNCHANGED schedVars

\* What syncMpesaTransactions does with the answer of the poll.
syncMpesaTransactions_Apply(res) ==
  LET mpesaTx == fetchMpesaTransactions(res)
  IN IF Len(mpesaTx) > 0
     THEN /\ mpesaTransactions' = lastFive(mpesaTx)
          /\ lastSync' = TRUE
     ELSE UNCHANGED <<mpesaTransactions, lastSync>>

\* initializeSync goes on after await syncMpesaTransactions(): the
\* interval is created and its id kept in intervalId.
initializeSync_Resume(res) ==
  /\ initSync = "awaiting"
  /\ syncMpesaTransactions_Apply(res)
  /\ intervalId' = "dashInterval"
  /\ dashInterval' = TRUE
  /\ initSync' = "done"
  /\ UNCHANGED <<subscribed, hookInterval, debounceLeft, dashPolls,
                 sinceNotify, burstLen, burstFetches, manualSync, isSyncing,
                 dashToast>>
  /\ UNCHANGED <<alertVars, hookVars, detectVars, utilVars>>

\* The interval of the dashboard fires: syncMpesaTransactions().  The
\* second copy of the hook hands no fetchMpesaTransactions over, and the
\* call ends in the catch block at once.
DashInterval_Fire ==
  /\ dashInterval
  /\ IF copy = 1
     THEN /\ dashPolls < NumDashPolls
          /\ dashPolls' = dashPolls + 1
     ELSE UNCHANGED dashPolls
  /\ UNCHANGED <<subscribed, hookInterval, debounceLeft, initSync,
                 intervalId, dashInterval, mpesaTransactions, lastSync,
                 sinceNotify, burstLen, burstFetches, manualSync, isSyncing,
                 dashToast>>
  /\ UNCHANGED <<alertVars, hookVars, detectVars, utilVars>>

\* A syncMpesaTransactions the interval started goes on after its await.
syncMpesaTransactions_Resume(res) ==
  /\ dashPolls > 0
  /\ dashPolls' = dashPolls - 1
  /\ syncMpesaTransactions_Apply(res)
  /\ UNCHANGED <<subscribed, hookInterval, debounceLeft, initSync,
                 intervalId, dashInterval, sinceNotify, burstLen, manualSync, isSyncing, dashToast,
                 burstFetches>>
  /\ UNCHANGED <<alertVars, hookVars, detectVars, utilVars>>

\* The dashboard is torn down; the clean-ups of all effects run: of the
\* hook (mountedRef, clearTimeout and removeChannel, clearInterval) and of
\* the sync effect (clearInterval when intervalId is set).
Teardown ==
  /\ mountedRef
  /\ mountedRef' = FALSE
  /\ subscribed' = FALSE
  /\ debounceLeft' = IF copy = 1 THEN -1 ELSE debounceLeft
  /\ hookInterval' = FALSE
  /\ dashInterval' = IF intervalId \notin Falsy THEN FALSE ELSE dashInterval
  /\ UNCHANGED <<initSync, intervalId, dashPolls, mpesaTransactions,
                 lastSync, sinceNotify, burstLen, burstFetches, manualSync, isSyncing,
                 dashToast>>
  /\ UNCHANGED <<copy, transactions, loading, error, toast, refreshes,
                 writes, ledger, nextTxId, feed, alertVars, detectVars, utilVars>>

\* The dashboard right after its first render and effects: the hook has
\* called fetchTransactions and (first copy) armed its interval, the channel
\* is subscribed, initializeSync awaits the first sync (first copy) or has
\* armed the interval already (second copy).
InitSched ==
  /\ AlertsAtRest
  /\ DetectsAtRest
  /\ UtilsAtRest
  /\ copy \in {1, 2}
  /\ transactions = <<>>
  /\ loading = TRUE
  /\ error = JsNull
  /\ mountedRef = TRUE
  /\ toast = "#none"
  /\ refreshes = [r \in Refreshers |->
                    IF r = 1
                    THEN [pc |-> "selecting", supabaseData |-> <<>>,
                          outcome |-> "pending"]
                    ELSE IdleRefresh]
  /\ writes = [w \in Writers |-> IdleWrite]
  /\ ledger = IncomeLedger
  /\ nextTxId = 1
  /\ feed \in FeedContents
  /\ subscribed = TRUE
  /\ hookInterval = (copy = 1)
  /\ debounceLeft = -1
  /\ initSync = IF copy = 1 THEN "awaiting" ELSE "done"
  /\ intervalId = IF copy = 1 THEN JsUndefined ELSE "dashInterval"
  /\ dashInterval = (copy = 2)
  /\ dashPolls = 0
  /\ mpesaTransactions = <<>>
  /\ lastSync = FALSE
  /\ sinceNotify = TicksPerWindow
  /\ burstLen = 0
  /\ manualSync = "idle"
  /\ isSyncing = FALSE
  /\ dashToast = "#none"
  /\ burstFetches = 0

NextSched ==
  \/ Notify
  \/ Tick
  \/ Debounce_Fire
  \/ HookInterval_Fire
  \/ \E r \in Refreshers, ok \in BOOLEAN : fetchTransactions_Select(r, ok)
  \/ \E r \in Refreshers, res \in PollResults : fetchTransactions_Poll(r, res)
  \/ \E r \in Refreshers, ok \in BOOLEAN : fetchTransactions2_Select(r, ok)
  \/ \E r \in Refreshers : fetchTransactions2_Apply(r)
  \/ \E res \in PollResults : initializeSync_Resume(res)
  \/ DashInterval_Fire
  \/ \E res \in PollResults : syncMpesaTransactions_Resume(res)
  \/ Teardown

SpecSched == InitSched /\ [][NextSched]_vars

\* C5: once the dashboard is torn down no timer it armed is pending:
\* neither the interval of the hook, nor window._fetchDebounce, nor the
\* interval of the sync effect, whenever the teardown happens.
C5_NoTimerAfterTeardown ==
  ~mountedRef => (~hookInterval /\ debounceLeft = -1 /\ ~dashInterval)

\* C6: while notifications of a burst keep arriving less than a window
\* apart no fetchTransactions call is made for them, and once a window has
\* passed since the last one exactly one call has been made.
C6_OneFetchPerBurst ==
  (subscribed /\ burstLen > 0)
    => /\ sinceNotify < TicksPerWindow => burstFetches = 0
       /\ (sinceNotify >= TicksPerWindow /\ debounceLeft # 0)
            => burstFetches = 1

-----------------------------------------------------------------------------
(* The hook over a ledger whose spending crosses thresholds and does not    *)
(* change: refreshes, and the detectAlerts calls they start.                *)

\* Income of 300.00 and one expense of 850.00 this month: 85% of the budget,
\* more than the income, and at least the large-transaction threshold.
SpendingLedger ==
  IncomeLedger \o
  <<[id |-> "tx9", type |-> "expense", amount |-> 85000,
     category |-> "rent", date |-> 6, source |-> JsUndefined]>>

InitDetect ==
  /\ AlertsAtRest
  /\ DetectsAtRest
  /\ UtilsAtRest
  /\ SchedAtRest
  /\ copy \in {1, 2}
  /\ HookMounted(SpendingLedger, <<>>)

NextDetect ==
  \/ \E r \in Refreshers : fetchTransactions_Call(r)
  \/ \E r \in Refreshers, ok \in BOOLEAN : fetchTransactions_Select(r, ok)
  \/ \E r \in Refreshers, res \in PollResults : fetchTransactions_Poll(r, res)
  \/ \E r \in Refreshers, ok \in BOOLEAN : fetchTransactions2_Select(r, ok)
  \/ \E r \in Refreshers : fetchTransactions2_Apply(r)
  \/ \E x \in Detectors, ok \in BOOLEAN : detectAlerts_Insert(x, ok)

SpecDetect == InitDetect /\ [][NextDetect]_vars

\* C8: whenever a producer inserts an alert, the table holds no unread
\* alert of that user with the same title, message and type; so refreshes
\* over unchanged spending add one unread alert per crossed threshold.
C8_InsertOnlyWithoutUnreadDuplicate ==
  [][Len(alerts') = Len(alerts) + 1
       => ~\E i \in 1..Len(alerts) :
             /\ alerts[i].user_id = alerts'[Len(alerts')].user_id
             /\ ~alerts[i].is_read
             /\ isSimilarAlert(alerts[i], alerts'[Len(alerts')])]_vars

-----------------------------------------------------------------------------
(* The alert store: deduplication and the stored type *)

UnreadOf(u) == {i \in 1..Len(alerts) : alerts[i].user_id = u /\ ~alerts[i].is_read}

\* C1: for one user, whatever the interleaving of createAlertIfNotExists
\* calls with markAlertRead and deleteAlert, the table never holds two
\* unread alerts of that user with the same title, message and type.
C1_NoTwoUnreadDuplicates ==
  \A u \in Users : \A i, j \in UnreadOf(u) :
    isSimilarAlert(alerts[i], alerts[j]) => i = j

\* C2: when createAlertIfNotExists is called again with the same user and
\* draft right after a call that created the alert, nothing having happened
\* in between, the second call finds the duplicate: it returns the
\* duplicate outcome and leaves the table as it is.
C2_SecondCallIsDuplicate ==
  [][\A c \in Callers :
       (succ.next = c /\ createAlertIfNotExists_Fetch(c, TRUE))
         => (calls'[c].result = "duplicate" /\ alerts' = alerts)]_vars

\* C3: every row of the alerts table has a type in VALID_TYPES, whatever
\* type value the producer handed to createAlert or createAlertIfNotExists
\* (null, a missing type, emoji, unrecognized strings included).
C3_StoredTypesValid ==
  \A i \in 1..Len(alerts) : alerts[i].type \in VALID_TYPES

\* A call of createAlertIfNotExists whose draft has a null type has just
\* inserted its row, stored as "neutral".
C3_Witness ==
  /\ succ.alert.type = JsNull
  /\ succ.userId = "u1"
  /\ alerts # <<>>
  /\ alerts[Len(alerts)].type = "neutral"

-----------------------------------------------------------------------------
(* The hook: refreshes and writes *)

\* The part of a list that came from the ledger.
LedgerPart(txs) == SelectSeq(txs, LAMBDA t : t.source # "mpesa")

\* C4: when the poll of the feed times out or fails during a refresh whose
\* ledger rows are the ones the list already shows, the list after the
\* refresh equals the list before it, the feed transactions of the
\* previous successful poll included.
C4_FailedPollKeepsList ==
  [][\A r \in Refreshers, res \in {"not_ok", "timeout"} :
       (/\ mountedRef
        /\ fetchTransactions_Poll(r, res)
        /\ LedgerPart(transactions) =
             mapToDisplayCurrency(refreshes[r].supabaseData))
         => transactions' = transactions]_vars

\* C7: a refresh that ends either leaves the list as it was or sets it to
\* the complete sorted merge of its cycle: the ledger rows it selected
\* together with the records of the feed (the second copy reads no feed).
C7_RefreshAppliesWholeCycle ==
  [][\A r \in Refreshers :
       (refreshes[r].pc # "idle" /\ refreshes'[r].pc = "idle")
         => \/ transactions' = transactions
            \/ /\ copy = 1
               /\ refreshes[r].pc = "polling"
               /\ transactions' =
                    mapToDisplayCurrency(
                      sortByDate(refreshes[r].supabaseData
                                   \o fetchMpesaTransactions("ok")))
            \/ /\ copy = 2
               /\ refreshes[r].outcome = "data"
               /\ transactions' =
                    mapToDisplayCurrency(refreshes[r].supabaseData)]_vars

\* The message a failed writer shows.
writeFailure(kind) ==
  CASE kind = "add" -> "Failed to add transaction"
    [] kind = "update" -> "Failed to update transaction"
    [] kind = "delete" -> "Failed to delete transaction"

\* C9: a write the store rejects changes neither the ledger nor the list:
\* no step of the call (sending it, the rejection, the handling of the
\* rejection) changes the list, and the handling shows the failure
\* notification and, in a mounted hook, sets the error state.
C9_RejectedWriteKeepsList ==
  [][\A w \in Writers :
       /\ (writes[w].pc = "idle" /\ writes'[w].pc = "sent")
            => transactions' = transactions
       /\ (writes[w].pc = "sent" /\ writes'[w].outcome = "error")
            => (transactions' = transactions /\ ledger' = ledger)
       /\ (writes[w].pc = "answered" /\ writes[w].outcome = "error"
             /\ writes'[w].pc = "idle")
            => /\ transactions' = transactions
               /\ toast' = writeFailure(writes[w].kind)
               /\ mountedRef => error' = writeFailure(writes[w].kind) \o "."
               /\ ledger' = ledger]_vars

\* A rejected deleteTransaction has been handled in a mounted hook: its
\* notification is the last one shown, the error state is set, and the
\* list still holds the transactions it held.
C9_Witness ==
  /\ toast = "Failed to delete transaction"
  /\ error = "Failed to delete transaction."
  /\ writes[1].pc = "idle"
  /\ Len(transactions) >= 2

\* C10: when the select of the ledger fails during a refresh of a mounted
\* hook, the list keeps its value, the refresh is over (loading is false,
\* the activation idle) and the failure notification is shown.
C10_FailedFetchKeepsList ==
  [][\A r \in Refreshers :
       (/\ mountedRef
        /\ \/ fetchTransactions_Select(r, FALSE)
           \/ refreshes[r].outcome = "error" /\ fetchTransactions2_Apply(r))
         => /\ transactions' = transactions
            /\ loading' = FALSE
            /\ refreshes'[r].pc = "idle"
            /\ toast' = "Failed to load transactions"]_vars

-----------------------------------------------------------------------------
(* Refreshes under fairness: every await of a fetchTransactions call is     *)
(* answered in the end (the poll of the feed carries an 8 s timeout, the    *)
(* select ends with rows or with an error).                                 *)

NextPoll ==
  \/ \E r \in Refreshers : fetchTransactions_Call(r)
  \/ \E r \in Refreshers, ok \in BOOLEAN : fetchTransactions_Select(r, ok)
  \/ \E r \in Refreshers, res \in PollResults : fetchTransactions_Poll(r, res)
  \/ \E r \in Refreshers, ok \in BOOLEAN : fetchTransactions2_Select(r, ok)
  \/ \E r \in Refreshers : fetchTransactions2_Apply(r)
  \/ \E records \in FeedContents : FeedChange(records)
  \/ Unmount

\* The step that answers the await activation r is at, at the latest: the
\* select answers with rows or with an error, and AbortSignal.timeout(8000)
\* ends a poll of the feed that nothing else has answered.
fetchTransactions_Resume(r) ==
  \/ \E ok \in BOOLEAN : fetchTransactions_Select(r, ok)
  \/ fetchTransactions_Poll(r, "timeout")
  \/ \E ok \in BOOLEAN : fetchTransactions2_Select(r, ok)
  \/ fetchTransactions2_Apply(r)

AwaitsAnswered == \A r \in Refreshers : WF_vars(fetchTransactions_Resume(r))

SpecPoll == Init /\ [][NextPoll]_vars /\ AwaitsAnswered

\* C11: every fetchTransactions call that has started ends, whatever the
\* select and the poll of the feed answer: its activation is over and, in
\* a mounted hook, loading is false; and whenever the hook is mounted and
\* an activation is free, a trigger can start a new call.
C11_PollEnds ==
  /\ \A r \in Refreshers :
       (refreshes[r].pc # "idle")
         ~> (refreshes[r].pc = "idle" /\ (mountedRef => ~loading))
  /\ []((mountedRef /\ \E r \in Refreshers : refreshes[r].pc = "idle")
          => ENABLED (\E r \in Refreshers : fetchTransactions_Call(r)))

\* A call whose select failed has ended in a mounted hook: the failure is
\* shown, no call is running and loading is false.
C11_Witness ==
  /\ toast = "Failed to load transactions"
  /\ error = "Failed to load transactions."
  /\ mountedRef
  /\ ~loading
  /\ \A r \in Refreshers : refreshes[r].pc = "idle"

-----------------------------------------------------------------------------
(* MainDashboard.jsx: the Sync button next to the sync effect.  Every       *)
(* syncMpesaTransactions call awaits fetchMpesaTransactions, which answers  *)
(* after 8 s at the latest (first copy), or fails at once and is caught     *)
(* (second copy, which hands no fetchMpesaTransactions over).               *)

\* The Sync button is clicked (it is disabled while isSyncing):
\* setIsSyncing(true), toast.loading, and syncMpesaTransactions is awaited.
handleManualSync_Call ==
  /\ mountedRef
  /\ ~isSyncing
  /\ manualSync = "idle"
  /\ manualSync' = "awaiting"
  /\ isSyncing' = TRUE
  /\ dashToast' = "U+1F504 Syncing M-Pesa..."
  /\ UNCHANGED <<subscribed, hookInterval, debounceLeft, initSync,
                 intervalId, dashInterval, dashPolls, mpesaTransactions,
                 lastSync, sinceNotify, burstLen, burstFetches>>
  /\ UNCHANGED <<alertVars, hookVars, detectVars, utilVars>>

\* handleManualSync goes on after its await and, on its way, clears the
\* interval of the sync effect.  A faulty variant, which the property that
\* a manual sync leaves the timer alone must tell from
\* handleManualSync_Resume.
handleManualSync_ResumeClears(res) ==
  /\ manualSync = "awaiting"
  /\ IF copy = 1 THEN syncMpesaTransactions_Apply(res)
     ELSE UNCHANGED <<mpesaTransactions, lastSync>>
  /\ manualSync' = "idle"
  /\ isSyncing' = FALSE
  /\ dashToast' = "U+2705 Sync completed!"
  /\ dashInterval' = FALSE
  /\ UNCHANGED <<subscribed, hookInterval, debounceLeft, initSync,
                 intervalId, dashPolls, sinceNotify, burstLen,
                 burstFetches>>
  /\ UNCHANGED <<alertVars, hookVars, detectVars, utilVars>>

\* handleManualSync goes on after await syncMpesaTransactions(), which has
\* applied the answer of its poll and never throws: toast.dismiss,
\* toast.success, and setIsSyncing(false) in the finally block.
handleManualSync_Resume(res) ==
  /\ manualSync = "awaiting"
  /\ IF copy = 1 THEN syncMpesaTransactions_Apply(res)
     ELSE UNCHANGED <<mpesaTransactions, lastSync>>
  /\ manualSync' = "idle"
  /\ isSyncing' = FALSE
  /\ dashToast' = "U+2705 Sync completed!"
  /\ UNCHANGED <<subscribed, hookInterval, debounceLeft, initSync,
                 intervalId, dashInterval, dashPolls, sinceNotify, burstLen,
                 burstFetches>>
  /\ UNCHANGED <<alertVars, hookVars, detectVars, utilVars>>

\* The dashboard after its first render, the first refresh of the hook
\* over: initializeSync awaits the first sync (first copy) or has armed the
\* interval already (second copy).
InitSync ==
  /\ AlertsAtRest
  /\ DetectsAtRest
  /\ UtilsAtRest
  /\ copy \in {1, 2}
  /\ \E records \in FeedContents : HookLoaded(IncomeLedger, records)
  /\ subscribed = TRUE
  /\ hookInterval = (copy = 1)
  /\ debounceLeft = -1
  /\ initSync = IF copy = 1 THEN "awaiting" ELSE "done"
  /\ intervalId = IF copy = 1 THEN JsUndefined ELSE "dashInterval"
  /\ dashInterval = (copy = 2)
  /\ dashPolls = 0
  /\ mpesaTransactions = <<>>
  /\ lastSync = FALSE
  /\ sinceNotify = TicksPerWindow
  /\ burstLen = 0
  /\ burstFetches = 0
  /\ manualSync = "idle"
  /\ isSyncing = FALSE
  /\ dashToast = "#none"

NextSync ==
  \/ handleManualSync_Call
  \/ \E res \in PollResults : handleManualSync_Resume(res)
  \/ \E res \in PollResults : initializeSync_Resume(res)
  \/ DashInterval_Fire
  \/ \E res \in PollResults : syncMpesaTransactions_Resume(res)
  \/ \E records \in FeedContents : FeedChange(records)
  \/ Teardown

\* Every await of a syncMpesaTransactions call is answered.
SyncsAnswered ==
  /\ WF_vars(\E res \in PollResults : handleManualSync_Resume(res))
  /\ WF_vars(\E res \in PollResults : initializeSync_Resume(res))
  /\ WF_vars(\E res \in PollResults : syncMpesaTransactions_Resume(res))

SpecSync == InitSync /\ [][NextSync]_vars /\ SyncsAnswered

\* C12: a manual sync that has been requested ends, and so does the first
\* sync of the effect, whatever else is in flight; the syncs the interval
\* started keep ending (none is in flight again and again, or one ends
\* again and again); no step of a mounted dashboard, a manual sync
\* included, disarms the interval; the Sync button can be used whenever no
\* manual sync runs, and the armed interval can fire whatever the manual
\* sync is doing.
C12_ManualAndTimerIndependent ==
  /\ (manualSync = "awaiting") ~> (manualSync = "idle" /\ ~isSyncing)
  /\ \/ []<>(dashPolls = 0)
     \/ []<><<\E res \in PollResults : syncMpesaTransactions_Resume(res)>>_vars
  /\ (initSync = "awaiting") ~> (initSync = "done" /\ dashInterval)
  /\ [][(dashInterval /\ mountedRef') => dashInterval']_vars
  /\ []((mountedRef /\ ~isSyncing) => ENABLED handleManualSync_Call)
  /\ []((dashInterval /\ dashPolls < NumDashPolls)
          => ENABLED DashInterval_Fire)

\* A manual sync has run to its end while the interval was armed and a
\* sync the interval started was still in flight.
C12_Witness ==
  /\ mountedRef
  /\ dashToast = "U+2705 Sync completed!"
  /\ manualSync = "idle"
  /\ ~isSyncing
  /\ dashInterval
  /\ dashPolls > 0

-----------------------------------------------------------------------------
(* The writers over a list that holds feed transactions with every kind of  *)
(* id generateMpesaId assigns.                                              *)

\* A feed whose records get, in turn, a synthesized id, an id derived from
\* mpesa_reference, an id derived from transaction_id, and their own id.
IdFeed ==
  <<mpesaRecord(JsUndefined, "Pay Bill", 129500, 2),
    [mpesaRecord(JsUndefined, "receive", 259000, 3)
       EXCEPT !.mpesa_reference = "QK1"],
    mpesaRecord("QK2", "Pay Bill", 129500, 4),
    [mpesaRecord("QK1", "receive", 259000, 6) EXCEPT !.id = "m7"]>>

\* The ids fetchMpesaTransactions gives the records of the feed.
feedIds == {normalizeMpesa(feed[i], i - 1).id : i \in 1..Len(feed)}

MpesaPart(txs) == SelectSeq(txs, LAMBDA t : t.source = "mpesa")

InitFeedWrites ==
  /\ AlertsAtRest
  /\ DetectsAtRest
  /\ UtilsAtRest
  /\ SchedAtRest
  /\ copy \in {1, 2}
  /\ HookLoaded(IncomeLedger, IdFeed)

NextFeedWrites ==
  \/ \E id \in listedIds, u \in UpdateInputs : updateTransaction_Call(1, id, u)
  \/ \E id \in listedIds : deleteTransaction_Call(1, id)
  \/ \E ok \in BOOLEAN : ledgerWrite(1, ok)
  \/ updateTransaction_Apply(1)
  \/ deleteTransaction_Apply(1)
  \/ Unmount

SpecFeedWrites == InitFeedWrites /\ [][NextFeedWrites]_vars

\* C13: while the writers update and delete, no request sent to the ledger
\* store is for the id of a feed transaction, and the feed transactions in
\* the list stay the ones the last poll put there.
C13_FeedTransactionsReadOnly ==
  /\ \A w \in Writers :
       writes[w].pc # "idle" => writes[w].id \notin feedIds
  /\ copy = 1 =>
       MpesaPart(transactions) =
         mapToDisplayCurrency(sortByDate(fetchMpesaTransactions("ok")))

-----------------------------------------------------------------------------
(* One merge pass of fetchTransactions (first copy) over every ledger and   *)
(* feed of up to MaxDelivered records, delivered in every order.            *)

SeqsUpTo(S, n) == UNION {[1..k -> S] : k \in 0..n}

\* Rows of the ledger: the id is the primary key of the table.
MergeRows ==
  {[id |-> id, type |-> "expense", amount |-> 4000, category |-> "food",
    date |-> d, source |-> JsUndefined] : id \in {"tx0", "tx1"}, d \in {5, 6}}
MergeLedgers ==
  {rows \in SeqsUpTo(MergeRows, MaxDelivered) :
     \A i, j \in 1..Len(rows) : i # j => rows[i].id # rows[j].id}

\* Records of the feed: two transaction ids, two dates, and a record may
\* carry an id of its own.
MergeRecords ==
  {[mpesaRecord(key, "Pay Bill", 129500, d) EXCEPT !.id = id] :
     key \in FeedKeys, d \in {5, 6}, id \in {JsUndefined, "tx0"}}
MergeFeeds == SeqsUpTo(MergeRecords, MaxDelivered)

InitMerge ==
  /\ AlertsAtRest
  /\ DetectsAtRest
  /\ UtilsAtRest
  /\ SchedAtRest
  /\ copy = 1
  /\ \E rows \in MergeLedgers, records \in MergeFeeds :
       HookMounted(rows, records)

NextMerge ==
  \/ fetchTransactions_Call(1)
  \/ \E ok \in BOOLEAN : fetchTransactions_Select(1, ok)
  \/ \E res \in PollResults : fetchTransactions_Poll(1, res)

SpecMerge == InitMerge /\ [][NextMerge]_vars

\* C14: the list a merge pass produces holds no two transactions with the
\* same id.
C14_NoDuplicateIds ==
  \A i, j \in 1..Len(transactions) :
    i # j => transactions[i].id # transactions[j].id

datesOf(txs) == {txs[i].date : i \in 1..Len(txs)}

-----------------------------------------------------------------------------
(* budgetService.js and the effect of BudgetAlerts.jsx.  Amounts and caps   *)
(* are in cents.                                                            *)

\* The ids of BUDGET_CATEGORIES, in the order of the array.
BUDGET_CATEGORIES ==
  <<"housing", "transportation", "food", "entertainment", "shopping",
    "healthcare", "education", "personal", "savings", "other">>
BudgetCategoryIds == {BUDGET_CATEGORIES[i] : i \in 1..Len(BUDGET_CATEGORIES)}

\* BUDGET_CATEGORIES.find(c => c.id === category)?.name, as the template
\* literal prints it.
categoryName(category) ==
  CASE category = "housing" -> "Housing"
    [] category = "transportation" -> "Transportation"
    [] category = "food" -> "Food & Dining"
    [] category = "entertainment" -> "Entertainment"
    [] category = "shopping" -> "Shopping"
    [] category = "healthcare" -> "Healthcare"
    [] category = "education" -> "Education"
    [] category = "personal" -> "Personal Care"
    [] category = "savings" -> "Savings & Investments"
    [] category = "other" -> "Other"
    [] OTHER -> "undefined"

RECURSIVE sumExpenses(_, _)
sumExpenses(txs, category) ==
  IF txs = <<>> THEN 0
  ELSE (IF Head(txs).category = category /\ Head(txs).type = "expense"
        THEN Head(txs).amount ELSE 0) + sumExpenses(Tail(txs), category)

\* The object calculateCategorySpending returns: one key per entry of
\* BUDGET_CATEGORIES.
calculateCategorySpending(txs) ==
  [category \in BudgetCategoryIds |-> sumExpenses(txs, category)]

\* object[key] of an object literal kept as a function
lookup(object, key) ==
  IF key \in DOMAIN object THEN object[key] ELSE JsUndefined

\* !spendingCaps[category]: undefined (no such key) and 0 are falsy,
\* every other number is not.
notCap(caps, category) ==
  category \notin DOMAIN caps \/ caps[category] = 0

\* (spent / cap) * 100 >= k
percentageAtLeast(spent, cap, k) ==
  IF cap > 0 THEN spent * 100 >= k * cap ELSE spent * 100 <= k * cap

\* Math.round((spent / cap) * 100) for a cap above 0
roundedPercentage(spent, cap) == (2 * spent * 100 + cap) \div (2 * cap)

\* budgetService.js imports nothing and declares no formatCurrency:
\* evaluating the identifier throws a ReferenceError.
formatCurrencyInScope == FALSE
Thrown == "#ReferenceError: formatCurrency is not defined"

\* formatCurrency(amount, "USD") of currencyUtils.js, were it in scope
formatCurrency(amount) ==
  IF formatCurrencyInScope THEN "$" \o moneyString(amount) ELSE Thrown

\* The draft one entry of categorySpending gives rise to; NoDraft when it
\* gives rise to none.
budgetDraft(category, spent, caps) ==
  IF notCap(caps, category) THEN NoDraft
  ELSE LET cap == caps[category] IN
  IF percentageAtLeast(spent, cap, 100)
  THEN [type |-> "warning", category |-> category,
        title |-> "Budget Exceeded: " \o categoryName(category),
        message |-> IF formatCurrencyInScope
                    THEN "You've spent " \o formatCurrency(spent) \o " of "
                           \o formatCurrency(cap) \o " budget"
                    ELSE Thrown,
        severity |-> "high"]
  ELSE IF percentageAtLeast(spent, cap, 80)
  THEN [type |-> "warning", category |-> category,
        title |-> "Budget Alert: " \o categoryName(category),
        message |-> IF formatCurrencyInScope
                    THEN "You've used "
                           \o ToString(roundedPercentage(spent, cap))
                           \o "% of your " \o formatCurrency(cap) \o " budget"
                    ELSE Thrown,
        severity |-> "medium"]
  ELSE NoDraft

\* checkBudgetAlerts: the drafts in the order of the keys, or the error
\* thrown while the first of them is built.
checkBudgetAlerts(spending, caps) ==
  LET all == [i \in 1..Len(BUDGET_CATEGORIES) |->
                budgetDraft(BUDGET_CATEGORIES[i],
                            lookup(spending, BUDGET_CATEGORIES[i]),
                            caps)]
      drafts == SelectSeq(all, LAMBDA a : a # NoDraft)
  IN IF \E i \in 1..Len(drafts) : drafts[i].message = Thrown
     THEN [threw |-> TRUE, alerts |-> <<>>]
     ELSE [threw |-> FALSE, alerts |-> drafts]

\* The effect of BudgetAlerts runs for the props at hand: the spending per
\* category, the drafts, setAlerts, and one createAlertIfNotExists call
\* per draft, each up to its first await.  An error thrown by
\* checkBudgetAlerts ends the effect before setAlerts.
BudgetAlerts_Effect ==
  /\ budgetEffect = "pending"
  /\ IF Len(propTransactions) = 0
     THEN /\ budgetEffect' = "done"
          /\ UNCHANGED <<categorySpending, budgetAlerts, calls>>
     ELSE LET spending == calculateCategorySpending(propTransactions)
              newAlerts == checkBudgetAlerts(spending, spendingCaps)
          IN /\ categorySpending' = spending
             /\ IF newAlerts.threw
                THEN /\ budgetEffect' = "thrown"
                     /\ UNCHANGED <<budgetAlerts, calls>>
                ELSE /\ budgetEffect' = "done"
                     /\ budgetAlerts' = newAlerts.alerts
                     /\ Len(newAlerts.alerts) <= NumCallers
                     /\ \A c \in Callers : calls[c].pc = "idle"
                     /\ calls' =
                          [c \in Callers |->
                             IF c <= Len(newAlerts.alerts)
                             THEN [pc |-> "fetching", userId |-> HookUser,
                                   alert |->
                                     [type |-> newAlerts.alerts[c].type,
                                      title |-> newAlerts.alerts[c].title,
                                      message |-> newAlerts.alerts[c].message,
                                      icon |-> "U+1F6A8"],
                                   toDelete |-> <<>>, result |-> "pending"]
                             ELSE calls[c]]
  /\ succ' = NoSucc
  /\ UNCHANGED <<alerts, nextAlertId, propTransactions, spendingCaps,
                 convVars, effectVars, hookVars, detectVars, schedVars>>

\* What the dashboard hands over: transactions of a category of the list
\* and of the category the feed records get by default, and caps for food
\* (absent, 0, negative, 600.00, 1000.00).
BudgetAmounts == {50000, 55000, 90000, 100000}
BudgetTxs ==
  [category : {"food", "M-Pesa"}, type : {"expense", "income"},
   amount : BudgetAmounts]
CapChoices ==
  {<<>>} \cup {[c \in {"food"} |-> cap] : cap \in {0, -60000, 60000, 100000}}

\* The dashboard renders BudgetAlerts anew with other props: the effect
\* is due again.
BudgetAlerts_Props(txs, caps) ==
  /\ budgetEffect # "pending"
  /\ \A c \in Callers : calls[c].pc = "idle"
  /\ <<txs, caps>> # <<propTransactions, spendingCaps>>
  /\ propTransactions' = txs
  /\ spendingCaps' = caps
  /\ budgetEffect' = "pending"
  /\ UNCHANGED <<categorySpending, budgetAlerts, convVars, effectVars,
                 alertVars,
                 hookVars, detectVars, schedVars>>

InitBudget ==
  /\ AlertsAtRest
  /\ EffectsAtRest
  /\ DetectsAtRest
  /\ SchedAtRest
  /\ copy = 1
  /\ HookMounted(<<>>, <<>>)
  /\ propTransactions \in SeqsUpTo(BudgetTxs, MaxBudgetTxs)
  /\ spendingCaps \in CapChoices
  /\ categorySpending = <<>>
  /\ budgetAlerts = <<>>
  /\ budgetEffect = "pending"
  /\ convArgs = NoArgs
  /\ convOut = <<>>

NextBudget ==
  \/ BudgetAlerts_Effect
  \/ \E txs \in SeqsUpTo(BudgetTxs, 1), caps \in CapChoices :
       BudgetAlerts_Props(txs, caps)

SpecBudget == InitBudget /\ [][NextBudget]_vars

\* The effect has run for props that hold transactions.
effectRan == budgetEffect # "pending" /\ propTransactions # <<>>

draftsOf(category) ==
  SelectSeq(budgetAlerts, LAMBDA a : a.category = category)

\* C16: once checkBudgetAlerts has been evaluated, every category with a
\* cap above 0 has exactly one draft of severity "high" titled "Budget
\* Exceeded: <category>" when its spending is at least 100% of the cap,
\* exactly one of severity "medium" titled "Budget Alert: <category>" when
\* it is at least 80% and below 100%, and none below 80%; a category
\* without a cap or with a cap of 0 or less has none.  The title may name
\* the category by its id or by its display name.
C16_DraftsPerThreshold ==
  effectRan =>
    \A category \in BudgetCategoryIds :
      LET spent == sumExpenses(propTransactions, category)
          drafts == draftsOf(category)
      IN IF category \in DOMAIN spendingCaps /\ spendingCaps[category] > 0
         THEN LET cap == spendingCaps[category]
              IN IF spent * 100 >= 100 * cap
                 THEN /\ Len(drafts) = 1
                      /\ drafts[1].severity = "high"
                      /\ drafts[1].title \in
                           {"Budget Exceeded: " \o category,
                            "Budget Exceeded: " \o categoryName(category)}
                 ELSE IF spent * 100 >= 80 * cap
                 THEN /\ Len(drafts) = 1
                      /\ drafts[1].severity = "medium"
                      /\ drafts[1].title \in
                           {"Budget Alert: " \o category,
                            "Budget Alert: " \o categoryName(category)}
                 ELSE drafts = <<>>
         ELSE drafts = <<>>

\* C17: on a store that was empty, once the effect has run for food
\* spending of at least 80% and below 100% of a cap above 0 and every
\* createAlertIfNotExists call it made has ended, the store holds exactly
\* one alert, titled "Budget Alert: food", whose message gives the rounded
\* percentage followed by "%".
C17_OneStoredBudgetAlert ==
  LET spent == sumExpenses(propTransactions, "food")
  IN (/\ effectRan
      /\ \A c \in Callers : calls[c].pc = "idle"
      /\ "food" \in DOMAIN spendingCaps
      /\ spendingCaps["food"] > 0
      /\ spent * 100 >= 80 * spendingCaps["food"]
      /\ spent * 100 < 100 * spendingCaps["food"])
       => /\ Len(alerts) = 1
          /\ alerts[1].title = "Budget Alert: food"
          /\ alerts[1].message =
               "You've used "
                 \o ToString(roundedPercentage(spent, spendingCaps["food"]))
                 \o "% of your $" \o moneyString(spendingCaps["food"])
                 \o " budget"

\* C18: the object calculateCategorySpending returned has, for every
\* category that occurs among the transactions, the sum of the amounts of
\* the expense transactions of that category.
C18_EveryCategorySummed ==
  effectRan =>
    \A i \in 1..Len(propTransactions) :
      LET category == propTransactions[i].category
      IN /\ category \in DOMAIN categorySpending
         /\ categorySpending[category]
              = sumExpenses(propTransactions, category)

-----------------------------------------------------------------------------
(* The hook over raw amounts of either sign: what the feed delivers and     *)
(* what the form hands to addTransaction.                                   *)

\* Amounts small enough that no threshold of detectAlerts is crossed.
RawAmounts == {7000, -7000}
RawAddInputs ==
  {[type |-> "income", amount |-> a, currency |-> "USD",
    category |-> "gift", date |-> 8] : a \in RawAmounts}
RawFeeds ==
  {<<mpesaRecord("QK1", "receive", a, 3)>> : a \in {129500, -129500}}

InitAmounts ==
  /\ AlertsAtRest
  /\ DetectsAtRest
  /\ UtilsAtRest
  /\ SchedAtRest
  /\ copy \in {1, 2}
  /\ \E records \in RawFeeds : HookMounted(IncomeLedger, records)

NextAmounts ==
  \/ fetchTransactions_Call(1)
  \/ \E ok \in BOOLEAN : fetchTransactions_Select(1, ok)
  \/ \E res \in PollResults : fetchTransactions_Poll(1, res)
  \/ \E ok \in BOOLEAN : fetchTransactions2_Select(1, ok)
  \/ fetchTransactions2_Apply(1)
  \/ \E tx \in RawAddInputs : addTransaction_Call(1, tx)
  \/ \E ok \in BOOLEAN : ledgerWrite(1, ok)
  \/ addTransaction_Apply(1)

SpecAmounts == InitAmounts /\ [][NextAmounts]_vars

\* C19: no transaction of the list has a negative amount.
C19_AmountsNeverNegative ==
  \A i \in 1..Len(transactions) : transactions[i].amount >= 0

-----------------------------------------------------------------------------
(* currencyUtils.js: an amount converted from one currency of the table to  *)
(* another and back.                                                        *)

Currencies == {"USD", "KES", "EUR", "GBP", "INR", "JPY"}
ConvAmounts == {0, 1, 50, 100, 1000, 12950}
ConvArgs ==
  [amount : ConvAmounts, fromCurrency : Currencies, toCurrency : Currencies]

\* A caller picks the arguments of the next round trip.
convertCurrency_Args(args) ==
  /\ convOut # <<>>
  /\ convArgs' = args
  /\ convOut' = <<>>
  /\ UNCHANGED <<budgetVars, effectVars, alertVars, hookVars, detectVars,
                 schedVars>>

\* convertCurrency(convertCurrency(x, A, B), B, A)
convertCurrency_RoundTrip ==
  /\ convOut = <<>>
  /\ LET there == convertCurrency(convArgs.amount, convArgs.fromCurrency,
                                  convArgs.toCurrency)
     IN convOut' = <<there, convertCurrency(there, convArgs.toCurrency,
                                            convArgs.fromCurrency)>>
  /\ UNCHANGED <<convArgs, budgetVars, effectVars, alertVars, hookVars,
                 detectVars,
                 schedVars>>

InitConvert ==
  /\ AlertsAtRest
  /\ EffectsAtRest
  /\ DetectsAtRest
  /\ SchedAtRest
  /\ copy = 1
  /\ HookMounted(<<>>, <<>>)
  /\ propTransactions = <<>>
  /\ spendingCaps = <<>>
  /\ categorySpending = <<>>
  /\ budgetAlerts = <<>>
  /\ budgetEffect = "done"
  /\ convArgs \in ConvArgs
  /\ convOut = <<>>

NextConvert ==
  \/ convertCurrency_RoundTrip
  \/ \E args \in ConvArgs : convertCurrency_Args(args)

SpecConvert == InitConvert /\ [][NextConvert]_vars

\* C20: an amount converted to another currency of the table and back
\* differs from the amount by at most 0.01.
C20_RoundTripWithinCent ==
  convOut # <<>> =>
    /\ convOut[2] - convArgs.amount <= 1
    /\ convArgs.amount - convOut[2] <= 1

-----------------------------------------------------------------------------
(* currencyUtils.js: an amount converted to its own currency.  Amounts are  *)
(* in thousandths here, so that a rounding to two decimals would show.      *)

\* A table a caller passes as `rates`, times 100: the default one, and one
\* that holds the base currency only.
RateTables ==
  { [USD |-> 100, KES |-> 12950, EUR |-> 92, GBP |-> 79, INR |-> 8400,
     JPY |-> 15000],
    [USD |-> 100] }

\* rates[c] || exchangeRates[c] || 1
rateOf(rates, c) ==
  IF c \in DOMAIN rates /\ rates[c] # 0 THEN rates[c]
  ELSE IF exchangeRates(c) # 0 THEN exchangeRates(c)
  ELSE 100

\* A faulty variant, which the property C21_SameCurrencyUnchanged must tell
\* from convertCurrencyFine: it has no early return for equal currencies.
convertCurrencyFineRounded(amount, fromCurrency, toCurrency, rates) ==
  IF amount = 0 THEN 0
  ELSE 10 * toFixed2(amount * rateOf(rates, toCurrency),
                     10 * rateOf(rates, fromCurrency))

\* convertCurrency on amounts in thousandths: toFixed(2) leaves a multiple
\* of ten thousandths.
convertCurrencyFine(amount, fromCurrency, toCurrency, rates) ==
  IF amount = 0 THEN 0
  ELSE IF fromCurrency = toCurrency THEN amount
  ELSE 10 * toFixed2(amount * rateOf(rates, toCurrency),
                     10 * rateOf(rates, fromCurrency))

\* "XAF" is in no table.
SameCurrencies == {"USD", "KES", "EUR", "XAF"}
FineAmounts == {0, 4, 5, 1005, 12344, 12345, -1005}
SameArgs ==
  [amount : FineAmounts, currency : SameCurrencies, rates : RateTables]

\* A caller picks the arguments of the next call.
convertCurrency_SameArgs(args) ==
  /\ convOut # <<>>
  /\ convArgs' = args
  /\ convOut' = <<>>
  /\ UNCHANGED <<budgetVars, effectVars, alertVars, hookVars, detectVars,
                 schedVars>>

\* convertCurrency(x, C, C, rates)
convertCurrency_Same ==
  /\ convOut = <<>>
  /\ convOut' = <<convertCurrencyFine(convArgs.amount, convArgs.currency,
                                      convArgs.currency, convArgs.rates)>>
  /\ UNCHANGED <<convArgs, budgetVars, effectVars, alertVars, hookVars,
                 detectVars,
                 schedVars>>

InitSame ==
  /\ AlertsAtRest
  /\ EffectsAtRest
  /\ DetectsAtRest
  /\ SchedAtRest
  /\ copy = 1
  /\ HookMounted(<<>>, <<>>)
  /\ propTransactions = <<>>
  /\ spendingCaps = <<>>
  /\ categorySpending = <<>>
  /\ budgetAlerts = <<>>
  /\ budgetEffect = "done"
  /\ convArgs \in SameArgs
  /\ convOut = <<>>

NextSame ==
  \/ convertCurrency_Same
  \/ \E args \in SameArgs : convertCurrency_SameArgs(args)

SpecSame == InitSame /\ [][NextSame]_vars

\* C21: an amount converted from a currency to the same currency comes back
\* as it went in, not rounded, whether or not the currency is in the table.
C21_SameCurrencyUnchanged ==
  convOut # <<>> => convOut[1] = convArgs.amount

\* An amount with a third decimal, in a currency of no table, has come back.
C21_Witness ==
  /\ convOut # <<>>
  /\ convArgs.currency = "XAF"
  /\ convArgs.amount = 1005
  /\ convOut[1] = 1005

-----------------------------------------------------------------------------
(* alertsService.js: the operations of the alerts panel on a store that    *)
(* holds alerts of two users.                                              *)

PanelDrafts ==
  [type : {"warning"}, title : {"Budget Alert: Food & Dining"},
   message : Messages, icon : {JsNull}]

NextPanel ==
  \/ \E u \in Users, a \in PanelDrafts, ok \in BOOLEAN : CreateAlert(u, a, ok)
  \/ \E id \in AlertIds : MarkAlertRead(id)
  \/ \E id \in AlertIds : DeleteAlert(id)
  \/ \E u \in Users : MarkAllAlertsRead(u)
  \/ \E u \in Users : DeleteAllReadAlerts(u)
  \/ \E u \in Users : DeleteAllUserAlerts(u)

SpecPanel == InitAlerts /\ [][NextPanel]_vars

\* C22: markAlertRead, deleteAlert, deleteAllReadAlerts and
\* deleteAllUserAlerts are idempotent: the store one of them leaves is not
\* changed by the same operation again, and on an alert that is absent or
\* already in the target state the operation leaves the store as it was.
C22_PanelOperationsIdempotent ==
  [][/\ \A id \in AlertIds :
          /\ MarkAlertRead(id) =>
               /\ markAlertRead(alerts', id) = alerts'
               /\ (\A i \in 1..Len(alerts) :
                      alerts[i].id = id => alerts[i].is_read)
                    => alerts' = alerts
          /\ DeleteAlert(id) =>
               /\ deleteAlert(alerts', id) = alerts'
               /\ (\A i \in 1..Len(alerts) : alerts[i].id # id)
                    => alerts' = alerts
     /\ \A u \in Users :
          /\ DeleteAllReadAlerts(u) =>
               /\ deleteAllReadAlerts(alerts', u) = alerts'
               /\ (\A i \in 1..Len(alerts) :
                      alerts[i].user_id = u => ~alerts[i].is_read)
                    => alerts' = alerts
          /\ DeleteAllUserAlerts(u) =>
               /\ deleteAllUserAlerts(alerts', u) = alerts'
               /\ (\A i \in 1..Len(alerts) : alerts[i].user_id # u)
                    => alerts' = alerts]_vars

\* The store holds a read and an unread alert, of different users, and an
\* alert has been deleted: each of the four operations has a target it has
\* already acted on, or that is absent, next to one it would change.
C22_Witness ==
  /\ Len(alerts) = 2
  /\ nextAlertId = 4
  /\ alerts[1].is_read
  /\ ~alerts[2].is_read
  /\ alerts[1].user_id # alerts[2].user_id

-----------------------------------------------------------------------------
(* createAlertIfNotExists: the read duplicates it retires and what it      *)
(* leaves alone.                                                           *)

\* The read alerts of user u in rows that are similar to the draft.
ReadDuplicates(rows, u, draft) ==
  {i \in 1..Len(rows) :
     /\ rows[i].user_id = u
     /\ rows[i].is_read
     /\ isSimilarAlert(rows[i], draft)}

\* C23: when createAlertIfNotExists inserts a new alert, the table then
\* holds at most one read alert of that user that duplicates the draft; and
\* the read duplicates the call chooses to delete are all those it was
\* shown but the most recently created one.
C23_OneReadDuplicateKept ==
  [][\A c \in Callers :
       /\ createAlertIfNotExists_Insert(c, TRUE) =>
            Cardinality(ReadDuplicates(alerts', calls[c].userId,
                                       calls[c].alert)) <= 1
       /\ (createAlertIfNotExists_Fetch(c, TRUE)
             /\ calls'[c].pc \in {"deleting", "inserting"}) =>
            LET dups == ReadDuplicates(alerts, calls[c].userId, calls[c].alert)
                kept == {i \in dups :
                           \A j \in dups :
                             alerts[j].created_at <= alerts[i].created_at}
            IN {calls'[c].toDelete[k] : k \in 1..Len(calls'[c].toDelete)}
                 = {alerts[i].id : i \in dups \ kept}]_vars

-----------------------------------------------------------------------------
(* The hook: a refresh that outlives the component.                        *)

\* C24: a refresh that is in flight when the hook unmounts completes
\* without changing the transaction list, the loading flag or the error
\* state, whether its fetches succeed or fail.
C24_PollAfterTeardownChangesNothing ==
  [][\A r \in Refreshers :
       (/\ ~mountedRef
        /\ \/ \E ok \in BOOLEAN : fetchTransactions_Select(r, ok)
           \/ \E res \in PollResults : fetchTransactions_Poll(r, res)
           \/ \E ok \in BOOLEAN : fetchTransactions2_Select(r, ok)
           \/ fetchTransactions2_Apply(r))
         => UNCHANGED <<transactions, loading, error>>]_vars

-----------------------------------------------------------------------------
(* fetchMpesaTransactions over batches in which a record lacks an amount   *)
(* or a date the normalization can read.                                   *)

\* The raw record of key `key`, with or without an amount and a date.
partialRecord(key, hasAmount, hasDate) ==
  LET base == [id |-> JsUndefined, source |-> JsUndefined,
               mpesa_reference |-> JsUndefined, transaction_id |-> key,
               transaction_type |-> "receive", category |-> JsUndefined]
      amountPart == IF hasAmount THEN [amount |-> 129500] ELSE <<>>
      datePart == IF hasDate THEN [date |-> 3] ELSE <<>>
  IN [f \in DOMAIN base \cup DOMAIN amountPart \cup DOMAIN datePart |->
        IF f \in DOMAIN base THEN base[f]
        ELSE IF f \in DOMAIN amountPart THEN amountPart[f]
        ELSE datePart[f]]

PartialBatches ==
  {<<partialRecord("QK1", a1, d1), partialRecord("QK2", a2, d2)>> :
     a1 \in BOOLEAN, d1 \in BOOLEAN, a2 \in BOOLEAN, d2 \in BOOLEAN}

unparsable(tx) == "amount" \notin DOMAIN tx \/ "date" \notin DOMAIN tx

InitNormalize ==
  /\ AlertsAtRest
  /\ DetectsAtRest
  /\ UtilsAtRest
  /\ SchedAtRest
  /\ copy = 1
  /\ \E records \in PartialBatches : HookMounted(IncomeLedger, records)

NextNormalize ==
  \/ fetchTransactions_Call(1)
  \/ \E ok \in BOOLEAN : fetchTransactions_Select(1, ok)
  \/ \E res \in PollResults : fetchTransactions_Poll(1, res)
  \/ \E records \in PartialBatches : FeedChange(records)

SpecNormalize == InitNormalize /\ [][NextNormalize]_vars

\* C25: when a poll of the feed is merged, no record of the batch whose
\* amount or date cannot be parsed is in the list, and every other record
\* of the batch is.
C25_UnparsableRecordDropped ==
  [][(mountedRef /\ fetchTransactions_Poll(1, "ok")) =>
       \A i \in 1..Len(feed) :
         unparsable(feed[i]) <=>
           ~\E j \in 1..Len(transactions') :
              transactions'[j].id = generateMpesaId(feed[i], i - 1)]_vars

-----------------------------------------------------------------------------
(* The hook: addTransaction next to refreshes.                             *)

\* C26: whatever the interleaving of addTransaction with refreshes, the
\* list holds no id twice: it has as many entries as it has ids.
C26_AddAndRefreshKeepIdsUnique ==
  Cardinality(listedIds) = Len(transactions)

-----------------------------------------------------------------------------
(* The effects that arm the periodic timers, run anew when a dependency    *)
(* changes: the sync effect of MainDashboard (syncMpesaTransactions, which *)
(* changes with fetchMpesaTransactions, that is with user?.id) and the     *)
(* auto-sync effect of the hook (user?.id, fetchTransactions).  First copy *)
(* of the hook: the second one hands no fetchMpesaTransactions over and    *)
(* the dependency of the sync effect never changes.                        *)

MaxEarlierRuns == 2

\* The sync effect runs anew: the clean-up of the current run clears the
\* interval if intervalId is set; then a new run calls initializeSync, with
\* an intervalId of its own.  An initial sync the old run still awaits goes
\* on.
SyncEffect_Rerun ==
  /\ mountedRef
  /\ copy = 1
  /\ IF intervalId \notin Falsy
     THEN UNCHANGED earlierRuns
     ELSE /\ earlierRuns.awaiting + earlierRuns.armed < MaxEarlierRuns
          /\ earlierRuns' = [earlierRuns EXCEPT !.awaiting = @ + 1]
  /\ dashInterval' = FALSE
  /\ intervalId' = JsUndefined
  /\ initSync' = "awaiting"
  /\ UNCHANGED <<subscribed, hookInterval, debounceLeft, dashPolls,
                 mpesaTransactions, lastSync, sinceNotify, burstLen,
                 burstFetches, manualSync, isSyncing, dashToast>>
  /\ UNCHANGED <<alertVars, hookVars, detectVars, budgetVars, convVars,
                 hookInstances, notices, timeouts, windowFetchDebounce,
                 instFetches>>

\* initializeSync of an earlier run goes on after its await: it arms an
\* interval and keeps the id in the intervalId of its own run, whose
\* clean-up has run already.
EarlierSync_Resume(res) ==
  /\ earlierRuns.awaiting > 0
  /\ syncMpesaTransactions_Apply(res)
  /\ earlierRuns' = [awaiting |-> earlierRuns.awaiting - 1,
                     armed |-> earlierRuns.armed + 1]
  /\ UNCHANGED <<subscribed, hookInterval, debounceLeft, initSync,
                 intervalId, dashInterval, dashPolls, sinceNotify, burstLen,
                 burstFetches, manualSync, isSyncing, dashToast>>
  /\ UNCHANGED <<alertVars, hookVars, detectVars, budgetVars, convVars,
                 hookInstances, notices, timeouts, windowFetchDebounce,
                 instFetches>>

\* An interval an earlier run armed fires: syncMpesaTransactions().
EarlierInterval_Fire ==
  /\ earlierRuns.armed > 0
  /\ dashPolls < NumDashPolls
  /\ dashPolls' = dashPolls + 1
  /\ UNCHANGED <<subscribed, hookInterval, debounceLeft, initSync,
                 intervalId, dashInterval, mpesaTransactions, lastSync,
                 sinceNotify, burstLen, burstFetches, manualSync, isSyncing,
                 dashToast>>
  /\ UNCHANGED <<alertVars, hookVars, detectVars, utilVars>>

\* The auto-sync effect of the hook runs anew: its clean-up clears the
\* interval, whose id it holds from the start; the new run calls
\* fetchTransactions and arms an interval.
HookEffect_Rerun ==
  /\ mountedRef
  /\ hookInterval
  /\ \E r \in Refreshers : fetchTransactions_Start(r)
  /\ hookInterval' = TRUE
  /\ fetchTransactions_Frame
  /\ UNCHANGED <<subscribed, debounceLeft, initSync, intervalId,
                 dashInterval, dashPolls, mpesaTransactions, lastSync,
                 sinceNotify, burstLen, burstFetches, manualSync, isSyncing,
                 dashToast>>

InitEffects ==
  /\ InitSched
  /\ copy = 1

NextEffects ==
  \/ SyncEffect_Rerun
  \/ \E res \in PollResults : initializeSync_Resume(res)
  \/ \E res \in PollResults : EarlierSync_Resume(res)
  \/ DashInterval_Fire
  \/ EarlierInterval_Fire
  \/ \E res \in PollResults : syncMpesaTransactions_Resume(res)
  \/ HookEffect_Rerun
  \/ \E r \in Refreshers, ok \in BOOLEAN : fetchTransactions_Select(r, ok)
  \/ \E r \in Refreshers, res \in PollResults : fetchTransactions_Poll(r, res)

SpecEffects == InitEffects /\ [][NextEffects]_vars

\* The intervals of the sync effect that are armed.
armedSyncIntervals == (IF dashInterval THEN 1 ELSE 0) + earlierRuns.armed

\* C27: while the component is mounted, at most one interval of the sync
\* effect is armed, also after the effect ran anew while the initial sync
\* of its previous run was awaited.
C27_OneSyncTimerArmed ==
  mountedRef => armedSyncIntervals <= 1

-----------------------------------------------------------------------------
(* Several instances of the hook (first copy) mounted for one user: each   *)
(* subscribes to the channel with a callback of its own, and all callbacks *)
(* and clean-ups share window._fetchDebounce.                              *)

\* A component that calls useTransactions mounts: the realtime effect
\* subscribes.
Instance_Mount(i) ==
  /\ i \notin hookInstances
  /\ hookInstances' = hookInstances \cup {i}
  /\ UNCHANGED <<notices, timeouts, windowFetchDebounce, instFetches,
                 earlierRuns>>
  /\ UNCHANGED <<alertVars, hookVars, detectVars, schedVars, budgetVars,
                 convVars>>

\* A row of the user changes: the channel has a notification for every
\* subscribed instance.
Change ==
  /\ notices = {}
  /\ hookInstances # {}
  /\ notices' = hookInstances
  /\ UNCHANGED <<hookInstances, timeouts, windowFetchDebounce, instFetches,
                 earlierRuns>>
  /\ UNCHANGED <<alertVars, hookVars, detectVars, schedVars, budgetVars,
                 convVars>>

\* The callback of instance i (lines 465-473): clearTimeout of the timeout
\* window._fetchDebounce names, then a timeout for its own
\* fetchTransactions, kept in window._fetchDebounce.
Instance_Notify(i) ==
  /\ i \in notices
  /\ notices' = notices \ {i}
  /\ timeouts' = (timeouts \ {windowFetchDebounce}) \cup {i}
  /\ windowFetchDebounce' = i
  /\ UNCHANGED <<hookInstances, instFetches, earlierRuns>>
  /\ UNCHANGED <<alertVars, hookVars, detectVars, schedVars, budgetVars,
                 convVars>>

\* A timeout fires after its 800 ms: fetchTransactions() of the instance
\* that set it.
Instance_DebounceFire(i) ==
  /\ i \in timeouts
  /\ instFetches[i] < MaxInstFetches
  /\ timeouts' = timeouts \ {i}
  /\ instFetches' = [instFetches EXCEPT ![i] = @ + 1]
  /\ UNCHANGED <<hookInstances, notices, windowFetchDebounce, earlierRuns>>
  /\ UNCHANGED <<alertVars, hookVars, detectVars, schedVars, budgetVars,
                 convVars>>

\* The clean-up of the realtime effect of instance i (lines 476-479):
\* clearTimeout(window._fetchDebounce) and removeChannel.
Instance_Teardown(i) ==
  /\ i \in hookInstances
  /\ hookInstances' = hookInstances \ {i}
  /\ notices' = notices \ {i}
  /\ timeouts' = timeouts \ {windowFetchDebounce}
  /\ UNCHANGED <<windowFetchDebounce, instFetches, earlierRuns>>
  /\ UNCHANGED <<alertVars, hookVars, detectVars, schedVars, budgetVars,
                 convVars>>

InitInstances ==
  /\ AlertsAtRest
  /\ DetectsAtRest
  /\ SchedAtRest
  /\ copy = 1
  /\ HookMounted(<<>>, <<>>)
  /\ propTransactions = <<>>
  /\ spendingCaps = <<>>
  /\ categorySpending = <<>>
  /\ budgetAlerts = <<>>
  /\ budgetEffect = "done"
  /\ convArgs = NoArgs
  /\ convOut = <<>>
  /\ earlierRuns = NoEarlierRuns
  /\ hookInstances = Instances
  /\ notices = {}
  /\ timeouts = {}
  /\ windowFetchDebounce = 0
  /\ instFetches = [i \in Instances |-> 0]

NextInstances ==
  \/ \E i \in Instances : Instance_Mount(i)
  \/ Change
  \/ \E i \in Instances : Instance_Notify(i)
  \/ \E i \in Instances : Instance_DebounceFire(i)
  \/ \E i \in Instances : Instance_Teardown(i)

SpecInstances == InitInstances /\ [][NextInstances]_vars

\* C28: the pending debounce timeout of one instance is not cancelled by
\* the notification or the teardown of another instance, so that every
\* instance a change was delivered to calls its own fetchTransactions.
C28_DebounceTimersIndependent ==
  [][\A i, j \in Instances :
       (/\ i # j
        /\ j \in timeouts
        /\ Instance_Notify(i) \/ Instance_Teardown(i))
         => j \in timeouts']_vars

-----------------------------------------------------------------------------
(* The hook: the loading flag under overlapping refreshes.                 *)

\* C29: in a mounted hook the loading flag is true as long as a refresh is
\* in flight, whichever triggers started the refreshes and in whatever
\* order they end.
C29_LoadingWhileRefreshInFlight ==
  (mountedRef /\ \E r \in Refreshers : refreshes[r].pc # "idle") => loading

-----------------------------------------------------------------------------
(* createAlertIfNotExists on a store that also holds alerts of another     *)
(* user.                                                                   *)

NextFrame ==
  \/ NextAlerts
  \/ \E a \in PanelDrafts, ok \in BOOLEAN : CreateAlert("u2", a, ok)

SpecFrame == InitAlerts /\ [][NextFrame]_vars

RowsOf(rows) == {rows[i] : i \in 1..Len(rows)}

\* C30: a step of a createAlertIfNotExists call changes the table only by
\* deleting read alerts of the call's user that have the draft's title,
\* message and type, or by appending one alert; every other row stays as
\* it is, and a call that ends with the duplicate outcome has changed
\* nothing.
C30_OnlyReadDuplicatesDeleted ==
  [][\A c \in Callers :
       /\ (\E ok \in BOOLEAN : createAlertIfNotExists_Delete(c, ok)) =>
            /\ RowsOf(alerts') \subseteq RowsOf(alerts)
            /\ \A a \in RowsOf(alerts) \ RowsOf(alerts') :
                 /\ a.is_read
                 /\ a.user_id = calls[c].userId
                 /\ a.title = calls[c].alert.title
                 /\ a.message = calls[c].alert.message
                 /\ a.type = calls[c].alert.type
       /\ (\E ok \in BOOLEAN : createAlertIfNotExists_Insert(c, ok)) =>
            /\ Len(alerts') <= Len(alerts) + 1
            /\ SubSeq(alerts', 1, Len(alerts)) = alerts
       /\ (\E ok \in BOOLEAN : createAlertIfNotExists_Fetch(c, ok)) =>
            alerts' = alerts
       /\ calls'[c].result = "duplicate" =>
            (alerts' = alerts \/ calls[c].result = "duplicate")]_vars

\* A call has deleted the older of two read duplicates of its draft and is
\* about to insert, in a table that also holds an alert of another user.
C30_Witness ==
  /\ \E c \in Callers : calls[c].pc = "inserting" /\ calls[c].userId = "u1"
  /\ nextAlertId = 4
  /\ Len(alerts) = 2
  /\ \E i, j \in 1..Len(alerts) :
       /\ alerts[i].user_id = "u1" /\ alerts[i].is_read /\ alerts[i].id = 2
       /\ alerts[j].user_id = "u2"

====
